---- MODULE Spec2Model ----
(***************************************************************************)
(* Skill-execution pipeline of alfred-async-agent.                         *)
(*                                                                         *)
(* The model follows src/src/webhook.ts (webhookHandler, processWebhook,   *)
(* processWebhookAsync), src/src/database.ts (createExecution,             *)
(* updateExecution, upsertResult) and the agent call of                    *)
(* src/unnamed/part_001 (executeAgent).  Every await of the code is a      *)
(* suspension point, so every storage call is an action of its own and     *)
(* the requests interleave at these points.                                *)
(***************************************************************************)
EXTENDS Integers, Sequences, FiniteSets, TLC

\* ---------------------------------------------------------------- bounds
NumReqs == 1        \* webhook requests served
NumSkills == 1      \* active skills of the catalog
MaxFiles == 1       \* files an agent run leaves in its working directory

Reqs == 1..NumReqs
Skills == 1..NumSkills

\* ------------------------------------------------------------- constants
Null == "null"              \* SQL NULL / JS null
Undefined == "undefined"    \* a field Prisma leaves untouched
NoId == 0                   \* executionId = null, workflowId = null

\* causes of a rejected orchestration call, by what the error message says
FailCauses == {"error", "deadline", "query_timeout"}

VARIABLES
    pc,               \* position of each request in webhookHandler/processWebhook
    isAsync,          \* validation.data.async of the request
    classification,   \* classification.workflowId (NoId = no match)
    executionId,      \* processWebhook's executionId (NoId = null)
    workingDirectory, \* processWebhook's workingDirectory (FALSE = null)
    agentResponse,    \* processWebhook's agentResponse
    uploadedFiles,    \* uploadedFiles.length
    caught,           \* the error in flight: [name, message]
    updCaller,        \* who called the running updateExecution
    executions,       \* table Execution, id = index
    skills,           \* table Skill: runCount, lastRunAt
    allocated,        \* requests whose agent run created its directory
    resp,             \* what the HTTP caller of each request was sent
    statusLog,        \* history: every status written to each Execution row
    hist,             \* history: calls made on behalf of each request
    rt,               \* one call of withRetry (db/client.ts)
    cl,               \* one call of classifyWorkflow (workflow-classifier.ts)
    pr,               \* one call of parseClassificationResponse
    tm,               \* one call of withTimeout (db/client.ts)
    ag,               \* concurrent calls of executeAgent (agent.ts)
    dup,              \* concurrent skill-matched requests and their rows
    ss,               \* the secret store: Config row and one save or read
    db,               \* the storage client handle of db/client.ts
    tx,               \* one call of createSkillExecution (db/client.ts)
    sd                \* the process after a termination signal (index.ts)

pipeline == <<pc, isAsync, classification, executionId, workingDirectory,
              agentResponse, uploadedFiles, caught, updCaller, executions,
              skills, allocated, resp, statusLog, hist>>

\* the components that are exercised on their own, outside a request
aux == <<rt, cl, pr, tm, ag, dup, ss, db, tx, sd>>

vars == <<pipeline, aux>>

local == <<isAsync, classification, executionId, workingDirectory,
           agentResponse, uploadedFiles, caught, updCaller>>
store == <<executions, skills, statusLog>>

NoError == [name |-> Null, message |-> Null]

InitHist ==
    [valid |-> "unknown", classifierCalls |-> 0, createCalls |-> 0,
     createPending |-> FALSE, createFailed |-> FALSE, orchCalls |-> 0,
     orchOutcome |-> "none", updCalls |-> <<>>, writeFailed |-> {},
     skillRejected |-> {}, skillBumps |-> 0, cleanupCalls |-> 0, recordRequest |-> <<>>,
     storageCalls |-> <<>>, path |-> "none"]

Idle == [pc |-> "idle"]

PipelineInit ==
    /\ pc = [r \in Reqs |-> "received"]
    /\ isAsync = [r \in Reqs |-> FALSE]
    /\ classification = [r \in Reqs |-> NoId]
    /\ executionId = [r \in Reqs |-> NoId]
    /\ workingDirectory = [r \in Reqs |-> FALSE]
    /\ agentResponse = [r \in Reqs |-> Null]
    /\ uploadedFiles = [r \in Reqs |-> 0]
    /\ caught = [r \in Reqs |-> NoError]
    /\ updCaller = [r \in Reqs |-> "none"]
    /\ executions = <<>>
    /\ skills = [s \in Skills |-> [runCount |-> 0, lastRunAt |-> 0]]
    /\ allocated = {}
    /\ resp = [r \in Reqs |-> <<>>]
    /\ statusLog = <<>>
    /\ hist = [r \in Reqs |-> InitHist]

Init ==
    /\ PipelineInit
    /\ rt = Idle
    /\ cl = Idle
    /\ pr = Idle
    /\ tm = Idle
    /\ ag = Idle
    /\ dup = Idle
    /\ ss = Idle /\ db = Idle /\ tx = Idle /\ sd = Idle

\* ------------------------------------------------------------ webhookHandler

Ack == [kind |-> "processing", name |-> Null, workflowId |-> NoId, text |-> Null]

\* Validate with the acknowledgement sent ahead of the schema check
Validate_ackFirst(r) ==
    /\ pc[r] = "received"
    /\ \E valid \in BOOLEAN, async \in BOOLEAN :
        /\ resp' = [resp EXCEPT ![r] = IF async THEN Append(@, Ack) ELSE @]
        /\ IF ~valid
           THEN /\ caught' = [caught EXCEPT ![r] =
                       [name |-> "ValidationError", message |-> "Invalid request body"]]
                /\ hist' = [hist EXCEPT ![r].valid = "no"]
                /\ pc' = [pc EXCEPT ![r] = "handler_catch"]
                /\ UNCHANGED isAsync
           ELSE /\ isAsync' = [isAsync EXCEPT ![r] = async]
                /\ hist' = [hist EXCEPT ![r].valid = "yes"]
                /\ pc' = [pc EXCEPT ![r] = "load"]
                /\ UNCHANGED caught
    /\ UNCHANGED <<classification, executionId, workingDirectory, agentResponse,
                   uploadedFiles, updCaller, allocated>>
    /\ UNCHANGED store
    /\ UNCHANGED aux

\* lines 47-100: safeParse, the ValidationError, the 202 of async mode
Validate(r) ==
    /\ pc[r] = "received"
    /\ \E valid \in BOOLEAN, async \in BOOLEAN :
        IF ~valid
        THEN /\ caught' = [caught EXCEPT ![r] =
                    [name |-> "ValidationError", message |-> "Invalid request body"]]
             /\ hist' = [hist EXCEPT ![r].valid = "no"]
             /\ pc' = [pc EXCEPT ![r] = "handler_catch"]
             /\ UNCHANGED <<isAsync, resp>>
        ELSE /\ isAsync' = [isAsync EXCEPT ![r] = async]
             /\ hist' = [hist EXCEPT ![r].valid = "yes"]
             /\ resp' = [resp EXCEPT ![r] = IF async THEN Append(@, Ack) ELSE @]
             /\ pc' = [pc EXCEPT ![r] = "load"]
             /\ UNCHANGED caught
    /\ UNCHANGED <<classification, executionId, workingDirectory, agentResponse,
                   uploadedFiles, updCaller, allocated>>
    /\ UNCHANGED store
    /\ UNCHANGED aux

\* lines 117-127: the catch of webhookHandler; the rethrown error reaches the caller
HandlerCatch(r) ==
    /\ pc[r] = "handler_catch"
    /\ hist' = [hist EXCEPT ![r].recordRequest = Append(@, FALSE)]
    /\ resp' = [resp EXCEPT ![r] = Append(@,
                 [kind |-> "error", name |-> caught[r].name,
                  workflowId |-> NoId, text |-> caught[r].message])]
    /\ pc' = [pc EXCEPT ![r] = "done"]
    /\ UNCHANGED <<allocated>>
    /\ UNCHANGED local
    /\ UNCHANGED store
    /\ UNCHANGED aux

\* lines 441-447 and 90-97: the detached run failed; logged, nothing is sent
AsyncCatch(r) ==
    /\ pc[r] = "async_catch"
    /\ hist' = [hist EXCEPT ![r].recordRequest = Append(@, FALSE)]
    /\ pc' = [pc EXCEPT ![r] = "done"]
    /\ UNCHANGED <<allocated, resp>>
    /\ UNCHANGED local
    /\ UNCHANGED store
    /\ UNCHANGED aux

\* ------------------------------------------------------------ processWebhook

\* lines 164-166: loadSystemPrompt / loadUserPromptPrefix, inside the outer try
LoadPrompts(r) ==
    /\ pc[r] = "load"
    /\ \E ok \in BOOLEAN :
        IF ok
        THEN /\ pc' = [pc EXCEPT ![r] = "classify"]
             /\ UNCHANGED caught
        ELSE /\ caught' = [caught EXCEPT ![r] =
                    [name |-> "Error", message |-> "prompt load failed"]]
             /\ pc' = [pc EXCEPT ![r] = "catch"]
    /\ UNCHANGED <<isAsync, classification, executionId, workingDirectory,
                   agentResponse, uploadedFiles, updCaller, allocated, resp, hist>>
    /\ UNCHANGED store
    /\ UNCHANGED aux

\* Classify that has an Execution created for unmatched requests as well
Classify_createAlways(r) ==
    /\ pc[r] = "classify"
    /\ \E m \in Skills \cup {NoId} :
          /\ classification' = [classification EXCEPT ![r] = m]
          /\ pc' = [pc EXCEPT ![r] = "create"]
    /\ hist' = [hist EXCEPT ![r].classifierCalls = @ + 1]
    /\ UNCHANGED <<isAsync, executionId, workingDirectory, agentResponse,
                   uploadedFiles, caught, updCaller, allocated, resp>>
    /\ UNCHANGED store
    /\ UNCHANGED aux

\* lines 168-199: classifyWorkflow is called only when searchWorkflow is set;
\* it yields a matched skill or none
Classify(r) ==
    /\ pc[r] = "classify"
    /\ \E searchWorkflow \in BOOLEAN :
        IF searchWorkflow
        THEN /\ \E m \in Skills \cup {NoId} :
                  /\ classification' = [classification EXCEPT ![r] = m]
                  /\ pc' = [pc EXCEPT ![r] = IF m # NoId THEN "create" ELSE "orchestrate"]
             /\ hist' = [hist EXCEPT ![r].classifierCalls = @ + 1]
        ELSE /\ pc' = [pc EXCEPT ![r] = "orchestrate"]
             /\ UNCHANGED <<classification, hist>>
    /\ UNCHANGED <<isAsync, executionId, workingDirectory, agentResponse,
                   uploadedFiles, caught, updCaller, allocated, resp>>
    /\ UNCHANGED store
    /\ UNCHANGED aux

\* one invocation of prisma.execution.create / prisma.execution.update, by
\* the step that issued it; a rejection is a connection failure (P1001)
StorageCall(step, outcome) == [step |-> step, outcome |-> outcome]

\* lines 43-51 of database.ts: the row prisma.execution.create inserts
NewExecution(skillId) ==
    [skillId |-> skillId, status |-> "running", output |-> Null, trace |-> Null,
     error |-> Null, durationMs |-> Null, completedAt |-> 0]

\* CreateCall without the await: the pipeline goes on while the create is pending
CreateCall_noAwait(r) ==
    /\ pc[r] = "create"
    /\ hist' = [hist EXCEPT ![r].createCalls = @ + 1, ![r].createPending = TRUE]
    /\ pc' = [pc EXCEPT ![r] = "orchestrate"]
    /\ UNCHANGED <<allocated, resp>>
    /\ UNCHANGED local
    /\ UNCHANGED store
    /\ UNCHANGED aux

\* line 210: createExecution is called and awaited
CreateCall(r) ==
    /\ pc[r] = "create"
    /\ hist' = [hist EXCEPT ![r].createCalls = @ + 1, ![r].createPending = TRUE]
    /\ pc' = [pc EXCEPT ![r] = "creating"]
    /\ UNCHANGED <<allocated, resp>>
    /\ UNCHANGED local
    /\ UNCHANGED store
    /\ UNCHANGED aux

\* a rejected createExecution treated as fatal
CreateFailPc_fatal == "catch"

\* lines 217-220: a rejected createExecution is logged, the run goes on
CreateFailPc == "orchestrate"

\* database.ts 40-59 and webhook.ts 210-221: the insert commits and its id is
\* returned, or the create rejects and executionId stays null
CreateSettle(r) ==
    /\ pc[r] = "creating"
    /\ \E ok \in BOOLEAN :
        IF ok
        THEN /\ executions' = Append(executions, NewExecution(classification[r]))
             /\ statusLog' = Append(statusLog, <<"running">>)
             /\ executionId' = [executionId EXCEPT ![r] = Len(executions) + 1]
             /\ hist' = [hist EXCEPT ![r].createPending = FALSE,
                    ![r].storageCalls = Append(@, StorageCall("create", "ok"))]
             /\ pc' = [pc EXCEPT ![r] = "orchestrate"]
        ELSE /\ hist' = [hist EXCEPT ![r].createPending = FALSE,
                    ![r].createFailed = TRUE,
                    ![r].storageCalls = Append(@, StorageCall("create", "P1001"))]
             /\ pc' = [pc EXCEPT ![r] = CreateFailPc]
             /\ UNCHANGED <<executions, statusLog, executionId>>
    /\ UNCHANGED <<isAsync, classification, workingDirectory, agentResponse,
                   uploadedFiles, caught, updCaller, skills, allocated, resp>>
    /\ UNCHANGED aux

\* webhook.ts 265-270: the AgentError an orchestration failure is wrapped in
AgentErrorOf(cause) ==
    [name |-> "AgentError",
     message |-> IF cause \in {"deadline", "query_timeout"}
                 THEN "Agent execution timeout" ELSE "Agent execution failed"]

\* webhook.ts 225 and 244: the orchestrator for a matched skill, else the
\* one-off agent
BranchOf(workflowId) == IF workflowId # NoId THEN "orchestrator" ELSE "agent"

\* webhook.ts 223-257 and part_001 48-63: the orchestrator / agent call starts;
\* it fails before its directory exists (no API key, mkdir) or creates it
OrchStart(r) ==
    /\ pc[r] = "orchestrate"
    /\ \E ok \in BOOLEAN :
        IF ok
        THEN /\ allocated' = allocated \cup {r}
             /\ hist' = [hist EXCEPT ![r].orchCalls = @ + 1,
                                     ![r].path = BranchOf(classification[r])]
             /\ pc' = [pc EXCEPT ![r] = "agent"]
             /\ UNCHANGED caught
        ELSE /\ caught' = [caught EXCEPT ![r] = AgentErrorOf("error")]
             /\ hist' = [hist EXCEPT ![r].orchCalls = @ + 1,
                                     ![r].orchOutcome = "error",
                                     ![r].path = BranchOf(classification[r])]
             /\ pc' = [pc EXCEPT ![r] = "catch"]
             /\ UNCHANGED allocated
    /\ UNCHANGED <<isAsync, classification, executionId, workingDirectory,
                   agentResponse, uploadedFiles, updCaller, resp>>
    /\ UNCHANGED store
    /\ UNCHANGED aux

\* OrchSettle that runs the agent call again after its first deadline expiry
OrchSettle_retry(r) ==
    /\ pc[r] = "agent"
    /\ \E outcome \in {"ok"} \cup FailCauses :
        /\ IF outcome = "ok"
           THEN /\ agentResponse' = [agentResponse EXCEPT ![r] = "text"]
                /\ workingDirectory' = [workingDirectory EXCEPT ![r] = TRUE]
                /\ pc' = [pc EXCEPT ![r] = "files"]
                /\ UNCHANGED caught
           ELSE /\ caught' = [caught EXCEPT ![r] = AgentErrorOf(outcome)]
                /\ pc' = [pc EXCEPT ![r] =
                       IF outcome = "deadline" /\ hist[r].orchCalls < 2
                       THEN "orchestrate" ELSE "catch"]
                /\ UNCHANGED <<agentResponse, workingDirectory>>
        /\ hist' = [hist EXCEPT ![r].orchOutcome = outcome]
    /\ UNCHANGED <<isAsync, classification, executionId, uploadedFiles,
                   updCaller, allocated, resp>>
    /\ UNCHANGED store
    /\ UNCHANGED aux

\* part_001 103-153 and webhook.ts 241-270: the call returns text, directory
\* and trace, or it rejects (error, agent deadline, a storage query timeout)
OrchSettle(r) ==
    /\ pc[r] = "agent"
    /\ \E outcome \in {"ok"} \cup FailCauses :
        /\ IF outcome = "ok"
           THEN /\ agentResponse' = [agentResponse EXCEPT ![r] = "text"]
                /\ workingDirectory' = [workingDirectory EXCEPT ![r] = TRUE]
                /\ pc' = [pc EXCEPT ![r] = "files"]
                /\ UNCHANGED caught
           ELSE /\ caught' = [caught EXCEPT ![r] = AgentErrorOf(outcome)]
                /\ pc' = [pc EXCEPT ![r] = "catch"]
                /\ UNCHANGED <<agentResponse, workingDirectory>>
        /\ hist' = [hist EXCEPT ![r].orchOutcome = outcome]
    /\ UNCHANGED <<isAsync, classification, executionId, uploadedFiles,
                   updCaller, allocated, resp>>
    /\ UNCHANGED store
    /\ UNCHANGED aux

\* lines 28-38: the listing appended for a non-empty list of uploads
formatFilesForResponse(n) == IF n = 0 THEN "" ELSE "+files"

\* ProcessFiles whose failure is not caught
ProcessFiles_fatal(r) ==
    /\ pc[r] = "files"
    /\ \E detected \in 0..MaxFiles, ok \in BOOLEAN :
        IF ok
        THEN LET n == IF workingDirectory[r] THEN detected ELSE 0 IN
             /\ uploadedFiles' = [uploadedFiles EXCEPT ![r] = n]
             /\ agentResponse' = [agentResponse EXCEPT ![r] =
                     IF n > 0 THEN "text" \o formatFilesForResponse(n) ELSE @]
             /\ pc' = [pc EXCEPT ![r] = "store"]
             /\ UNCHANGED caught
        ELSE /\ caught' = [caught EXCEPT ![r] =
                    [name |-> "StorageError", message |-> "upload failed"]]
             /\ pc' = [pc EXCEPT ![r] = "catch"]
             /\ UNCHANGED <<uploadedFiles, agentResponse>>
    /\ UNCHANGED <<isAsync, classification, executionId, workingDirectory,
                   updCaller, allocated, resp, hist>>
    /\ UNCHANGED store
    /\ UNCHANGED aux

\* ProcessFiles that lists the files it detected, uploaded or not
ProcessFiles_listsDetected(r) ==
    /\ pc[r] = "files"
    /\ \E detected \in 0..MaxFiles, ok \in BOOLEAN :
        LET n == IF workingDirectory[r] /\ ok THEN detected ELSE 0 IN
        /\ uploadedFiles' = [uploadedFiles EXCEPT ![r] = n]
        /\ agentResponse' = [agentResponse EXCEPT ![r] =
                IF detected > 0 THEN "text" \o formatFilesForResponse(detected) ELSE @]
    /\ pc' = [pc EXCEPT ![r] = "store"]
    /\ UNCHANGED <<isAsync, classification, executionId, workingDirectory,
                   caught, updCaller, allocated, resp, hist>>
    /\ UNCHANGED store
    /\ UNCHANGED aux

\* lines 272-318: detect and upload, never fatal; a failure uploads nothing
ProcessFiles(r) ==
    /\ pc[r] = "files"
    /\ \E detected \in 0..MaxFiles, ok \in BOOLEAN :
        LET n == IF workingDirectory[r] /\ ok THEN detected ELSE 0 IN
        /\ uploadedFiles' = [uploadedFiles EXCEPT ![r] = n]
        /\ agentResponse' = [agentResponse EXCEPT ![r] =
                IF n > 0 THEN "text" \o formatFilesForResponse(n) ELSE @]
    /\ pc' = [pc EXCEPT ![r] = "store"]
    /\ UNCHANGED <<isAsync, classification, executionId, workingDirectory,
                   caught, updCaller, allocated, resp, hist>>
    /\ UNCHANGED store
    /\ UNCHANGED aux

\* ------------------------------------------------- updateExecution (database.ts)

Callers == {"upsertResult", "success", "failure"}

\* the result argument of each call of updateExecution:
\* database.ts 137-141, webhook.ts 335-340, webhook.ts 396-400
UpdateArgs(r, caller) ==
    CASE caller = "upsertResult" ->
            [status |-> "completed", output |-> agentResponse[r],
             trace |-> Undefined, error |-> Undefined, durationMs |-> Undefined]
      [] caller = "success" ->
            [status |-> "completed", output |-> agentResponse[r],
             trace |-> "trace", error |-> Undefined, durationMs |-> "ms"]
      [] caller = "failure" ->
            [status |-> "failed", output |-> Undefined,
             trace |-> Undefined, error |-> caught[r].message, durationMs |-> "ms"]

\* where each caller goes on when its updateExecution has returned
ReturnPc(caller) ==
    CASE caller = "upsertResult" -> "update"
      [] caller = "success" -> "cleanup"
      [] caller = "failure" -> "fail_cleanup"

\* where each caller would go on had updateExecution rejected:
\* the catch of webhook.ts 343-349, the .catch of webhook.ts 400-402
ThrowPc(caller) ==
    CASE caller = "upsertResult" -> "cleanup"
      [] caller = "success" -> "cleanup"
      [] caller = "failure" -> "fail_cleanup"

\* updateExecution with a catch that rethrows
UpdateExecutionFailPc_rethrow(caller) == ThrowPc(caller)

\* database.ts 111-114: the catch of updateExecution does not rethrow
UpdateExecutionFailPc(caller) == ReturnPc(caller)

Set(old, new) == IF new = Undefined THEN old ELSE new

\* database.ts 81-92: the data of prisma.execution.update; an undefined field
\* is left as it is, completedAt is a new Date() on every call
ApplyUpdate(row, a) ==
    [row EXCEPT !.status = a.status,
                !.output = Set(@, a.output),
                !.trace = Set(@, a.trace),
                !.error = Set(@, a.error),
                !.durationMs = Set(@, a.durationMs),
                !.completedAt = @ + 1]

\* a call of updateExecution starts
CallUpdate(r, caller) ==
    /\ updCaller' = [updCaller EXCEPT ![r] = caller]
    /\ hist' = [hist EXCEPT ![r].updCalls =
                   Append(@, [caller |-> caller, args |-> UpdateArgs(r, caller)])]
    /\ pc' = [pc EXCEPT ![r] = "upd_exec"]

\* database.ts 78-92: prisma.execution.update commits or rejects
UpdateExecutionRow(r) ==
    /\ pc[r] = "upd_exec"
    /\ \E ok \in BOOLEAN :
        IF ok
        THEN /\ executions' = [executions EXCEPT ![executionId[r]] =
                    ApplyUpdate(@, UpdateArgs(r, updCaller[r]))]
             /\ statusLog' = [statusLog EXCEPT ![executionId[r]] =
                    Append(@, UpdateArgs(r, updCaller[r]).status)]
             /\ pc' = [pc EXCEPT ![r] = "upd_skill"]
             /\ hist' = [hist EXCEPT ![r].storageCalls =
                    Append(@, StorageCall(updCaller[r], "ok"))]
        ELSE /\ hist' = [hist EXCEPT ![r].writeFailed = @ \cup {updCaller[r]},
                    ![r].storageCalls = Append(@, StorageCall(updCaller[r], "P1001"))]
             /\ pc' = [pc EXCEPT ![r] = UpdateExecutionFailPc(updCaller[r])]
             /\ UNCHANGED <<executions, statusLog>>
    /\ UNCHANGED <<skills, allocated, resp>>
    /\ UNCHANGED local
    /\ UNCHANGED aux

\* database.ts 94-110: findUnique of the row's skillId, then skill.update
\* increments runCount and sets lastRunAt; either call may reject
UpdateExecutionSkill(r) ==
    /\ pc[r] = "upd_skill"
    /\ \E found \in BOOLEAN, ok \in BOOLEAN :
        IF found /\ ok
        THEN /\ skills' = [skills EXCEPT ![executions[executionId[r]].skillId] =
                    [runCount |-> @.runCount + 1, lastRunAt |-> @.lastRunAt + 1]]
             /\ hist' = [hist EXCEPT ![r].skillBumps = @ + 1]
             /\ pc' = [pc EXCEPT ![r] = ReturnPc(updCaller[r])]
        ELSE /\ hist' = [hist EXCEPT ![r].skillRejected = @ \cup {updCaller[r]}]
             /\ pc' = [pc EXCEPT ![r] = UpdateExecutionFailPc(updCaller[r])]
             /\ UNCHANGED skills
    /\ UNCHANGED <<executions, statusLog, allocated, resp>>
    /\ UNCHANGED local
    /\ UNCHANGED aux

\* ------------------------------------------- processWebhook, after the agent

\* webhook.ts 323-329 and database.ts 123-143: upsertResult updates the
\* execution named by metadata.executionId, when there is one
StoreResult(r) ==
    /\ pc[r] = "store"
    /\ IF executionId[r] # NoId
       THEN CallUpdate(r, "upsertResult")
       ELSE /\ pc' = [pc EXCEPT ![r] = "update"]
            /\ UNCHANGED <<updCaller, hist>>
    /\ UNCHANGED <<isAsync, classification, executionId, workingDirectory,
                   agentResponse, uploadedFiles, caught, allocated, resp>>
    /\ UNCHANGED store
    /\ UNCHANGED aux

\* webhook.ts 332-342: the update to completed, when executionId is set
PipelineUpdate(r) ==
    /\ pc[r] = "update"
    /\ IF executionId[r] # NoId
       THEN CallUpdate(r, "success")
       ELSE /\ pc' = [pc EXCEPT ![r] = "cleanup"]
            /\ UNCHANGED <<updCaller, hist>>
    /\ UNCHANGED <<isAsync, classification, executionId, workingDirectory,
                   agentResponse, uploadedFiles, caught, allocated, resp>>
    /\ UNCHANGED store
    /\ UNCHANGED aux

\* webhook.ts 351-358: cleanupWorkingDirectory is started, not awaited
Cleanup(r) ==
    /\ pc[r] = "cleanup"
    /\ hist' = [hist EXCEPT ![r].cleanupCalls =
                   IF workingDirectory[r] THEN @ + 1 ELSE @]
    /\ pc' = [pc EXCEPT ![r] = "respond"]
    /\ UNCHANGED <<allocated, resp>>
    /\ UNCHANGED local
    /\ UNCHANGED store
    /\ UNCHANGED aux

\* Respond that leaves the workflow fields out of every response
Respond_noWorkflow(r) ==
    /\ pc[r] = "respond"
    /\ hist' = [hist EXCEPT ![r].recordRequest = Append(@, TRUE)]
    /\ resp' = [resp EXCEPT ![r] =
                 IF isAsync[r] THEN @
                 ELSE Append(@, [kind |-> "ok", name |-> Null,
                                 workflowId |-> NoId,
                                 text |-> agentResponse[r]])]
    /\ pc' = [pc EXCEPT ![r] = "done"]
    /\ UNCHANGED <<allocated>>
    /\ UNCHANGED local
    /\ UNCHANGED store
    /\ UNCHANGED aux

\* webhook.ts 368-383 and 116: the response; res.json in synchronous mode only
Respond(r) ==
    /\ pc[r] = "respond"
    /\ hist' = [hist EXCEPT ![r].recordRequest = Append(@, TRUE)]
    /\ resp' = [resp EXCEPT ![r] =
                 IF isAsync[r] THEN @
                 ELSE Append(@, [kind |-> "ok", name |-> Null,
                                 workflowId |-> classification[r],
                                 text |-> agentResponse[r]])]
    /\ pc' = [pc EXCEPT ![r] = "done"]
    /\ UNCHANGED <<allocated>>
    /\ UNCHANGED local
    /\ UNCHANGED store
    /\ UNCHANGED aux

\* the catch of processWebhook without the update to failed
Catch_noUpdate(r) ==
    /\ pc[r] = "catch"
    /\ hist' = [hist EXCEPT ![r].recordRequest = Append(@, FALSE)]
    /\ pc' = [pc EXCEPT ![r] = "fail_cleanup"]
    /\ UNCHANGED <<allocated, resp>>
    /\ UNCHANGED local
    /\ UNCHANGED store
    /\ UNCHANGED aux

\* webhook.ts 384-403: the catch of processWebhook; the update to failed
Catch(r) ==
    /\ pc[r] = "catch"
    /\ IF executionId[r] # NoId
       THEN /\ updCaller' = [updCaller EXCEPT ![r] = "failure"]
            /\ hist' = [hist EXCEPT
                   ![r].recordRequest = Append(@, FALSE),
                   ![r].updCalls = Append(@, [caller |-> "failure",
                                              args |-> UpdateArgs(r, "failure")])]
            /\ pc' = [pc EXCEPT ![r] = "upd_exec"]
       ELSE /\ hist' = [hist EXCEPT ![r].recordRequest = Append(@, FALSE)]
            /\ pc' = [pc EXCEPT ![r] = "fail_cleanup"]
            /\ UNCHANGED updCaller
    /\ UNCHANGED <<isAsync, classification, executionId, workingDirectory,
                   agentResponse, uploadedFiles, caught, allocated, resp>>
    /\ UNCHANGED store
    /\ UNCHANGED aux

\* FailCleanup of a detached run whose rejection is not caught on its own:
\* the throw reaches webhookHandler's catch in either mode
FailCleanup_toHandler(r) ==
    /\ pc[r] = "fail_cleanup"
    /\ hist' = [hist EXCEPT ![r].cleanupCalls =
                   IF workingDirectory[r] THEN @ + 1 ELSE @]
    /\ pc' = [pc EXCEPT ![r] = "handler_catch"]
    /\ UNCHANGED <<allocated, resp>>
    /\ UNCHANGED local
    /\ UNCHANGED store
    /\ UNCHANGED aux

\* webhook.ts 405-413: cleanup of a known working directory, then the throw,
\* to webhookHandler's catch or to the detached run's catch
FailCleanup(r) ==
    /\ pc[r] = "fail_cleanup"
    /\ hist' = [hist EXCEPT ![r].cleanupCalls =
                   IF workingDirectory[r] THEN @ + 1 ELSE @]
    /\ pc' = [pc EXCEPT ![r] = IF isAsync[r] THEN "async_catch" ELSE "handler_catch"]
    /\ UNCHANGED <<allocated, resp>>
    /\ UNCHANGED local
    /\ UNCHANGED store
    /\ UNCHANGED aux

Next ==
    \E r \in Reqs :
        \/ Validate(r)
        \/ HandlerCatch(r)
        \/ AsyncCatch(r)
        \/ LoadPrompts(r)
        \/ Classify(r)
        \/ CreateCall(r)
        \/ CreateSettle(r)
        \/ OrchStart(r)
        \/ OrchSettle(r)
        \/ ProcessFiles(r)
        \/ StoreResult(r)
        \/ UpdateExecutionRow(r)
        \/ UpdateExecutionSkill(r)
        \/ PipelineUpdate(r)
        \/ Cleanup(r)
        \/ Respond(r)
        \/ Catch(r)
        \/ FailCleanup(r)

Spec == Init /\ [][Next]_vars

\* every request runs to its end: the event loop keeps scheduling ready work
FairSpec == Spec /\ WF_vars(Next)

\* ------------------------------------------------- withRetry (db/client.ts)
MaxAttempts == 3    \* largest retryConfig.maxAttempts a caller passes

\* client.ts 210-214
DEFAULT_RETRY_CONFIG == [maxAttempts |-> 3, delayMs |-> 100, backoffMultiplier |-> 2]

\* client.ts 174-181; P2025 stands for the codes that are not connection codes
PrismaErrorCodes ==
    [CONNECTION_ERROR |-> "P1001", CONNECTION_TIMEOUT |-> "P1008",
     RECORD_NOT_FOUND |-> "P2025"]

\* an error object: code is Undefined when the object has no such field
PrismaError(code) == [code |-> code, message |-> "prisma"]
PlainError == [code |-> Undefined, message |-> "error"]

\* no error yet, and the undefined that line 256 throws after an empty loop
NoThrow == [code |-> Null, message |-> Null]
UndefinedThrown == [code |-> Undefined, message |-> Undefined]

\* client.ts 129: what withTimeout rejects with, a plain Error
QueryTimeoutError == [code |-> Undefined, message |-> "Query timeout"]

\* what one invocation of the wrapped operation settles with
OpErrors == {PrismaError(PrismaErrorCodes.CONNECTION_ERROR),
             PrismaError(PrismaErrorCodes.CONNECTION_TIMEOUT),
             PrismaError(PrismaErrorCodes.RECORD_NOT_FOUND),
             PlainError}
OkValue == [code |-> Null, message |-> "value"]

\* client.ts 124-134: Promise.race of the operation against the timer
withTimeout(settled, timerFirst) ==
    IF timerFirst THEN QueryTimeoutError ELSE settled

\* client.ts 192-199
isPrismaError(error) == error.code \notin {Undefined, Null}

\* ShouldRetry that retries whatever carries a code
ShouldRetry_anyCode(error) == isPrismaError(error)

\* ShouldRetry that knows one connection code only
ShouldRetry_onlyConnError(error) ==
    /\ isPrismaError(error)
    /\ error.code = PrismaErrorCodes.CONNECTION_ERROR

\* client.ts 237-241
ShouldRetry(error) ==
    /\ isPrismaError(error)
    /\ \/ error.code = PrismaErrorCodes.CONNECTION_ERROR
       \/ error.code = PrismaErrorCodes.CONNECTION_TIMEOUT

\* what a caller may pass for a field of Partial<RetryConfig>
ConfigValues ==
    [maxAttempts |-> 0..MaxAttempts, delayMs |-> {10}, backoffMultiplier |-> {3}]

\* the config argument: any subset of the fields, each with one of its values
PartialConfigs ==
    {c \in UNION {[D -> UNION {ConfigValues[f] : f \in DOMAIN ConfigValues}] :
                     D \in SUBSET DOMAIN ConfigValues} :
        \A f \in DOMAIN c : c[f] \in ConfigValues[f]}

\* client.ts 226: { ...DEFAULT_RETRY_CONFIG, ...config }
MergeConfig(config) ==
    [f \in DOMAIN DEFAULT_RETRY_CONFIG |->
        IF f \in DOMAIN config THEN config[f] ELSE DEFAULT_RETRY_CONFIG[f]]

\* client.ts 226-230: the call starts with attempt 1 and the configured delay;
\* guarded = the operation is () => withTimeout(op, t)
RetryStart(config, g) ==
    LET retryConfig == MergeConfig(config) IN
    [pc |-> "loop", maxAttempts |-> retryConfig.maxAttempts,
     delayMs |-> retryConfig.delayMs,
     backoffMultiplier |-> retryConfig.backoffMultiplier,
     guarded |-> g, attempt |-> 1,
     delay |-> retryConfig.delayMs, calls |-> 0, outcomes |-> <<>>,
     waits |-> <<>>, result |-> NoThrow, thrown |-> NoThrow]

RetryInit ==
    /\ PipelineInit
    /\ cl = Idle
    /\ pr = Idle
    /\ tm = Idle /\ ag = Idle /\ dup = Idle
    /\ ss = Idle /\ db = Idle /\ tx = Idle /\ sd = Idle
    /\ rt \in {RetryStart(c, g) : c \in PartialConfigs, g \in BOOLEAN}

\* client.ts 232-245: one pass of the loop body up to the throw or the sleep
RetryInvoke ==
    /\ rt.pc = "loop"
    /\ rt.attempt <= rt.maxAttempts
    /\ \E settled \in {OkValue} \cup OpErrors, timerFirst \in BOOLEAN :
        /\ timerFirst => rt.guarded
        /\ LET outcome == withTimeout(settled, timerFirst)
               called == [rt EXCEPT !.calls = @ + 1,
                                    !.outcomes = Append(@, outcome)]
           IN  rt' = IF outcome = OkValue
                     THEN [called EXCEPT !.pc = "returned", !.result = outcome]
                     ELSE IF ~ShouldRetry(outcome) \/ rt.attempt = rt.maxAttempts
                     THEN [called EXCEPT !.pc = "thrown", !.thrown = outcome]
                     ELSE [called EXCEPT !.pc = "wait"]
    /\ UNCHANGED <<pipeline, cl, pr, tm, ag, dup, ss, db, tx, sd>>

\* RetryWait that sleeps the initial delay every time
RetryWait_fixedDelay ==
    /\ rt.pc = "wait"
    /\ rt' = [rt EXCEPT !.pc = "loop",
                        !.waits = Append(@, rt.delay),
                        !.attempt = @ + 1]
    /\ UNCHANGED <<pipeline, cl, pr, tm, ag, dup, ss, db, tx, sd>>

\* client.ts 247-250: sleep, then the backoff and the loop increment
RetryWait ==
    /\ rt.pc = "wait"
    /\ rt' = [rt EXCEPT !.pc = "loop",
                        !.waits = Append(@, rt.delay),
                        !.delay = @ * rt.backoffMultiplier,
                        !.attempt = @ + 1]
    /\ UNCHANGED <<pipeline, cl, pr, tm, ag, dup, ss, db, tx, sd>>

\* client.ts 256: the loop ended without a return or a throw
RetryExhausted ==
    /\ rt.pc = "loop"
    /\ rt.attempt > rt.maxAttempts
    /\ rt' = [rt EXCEPT !.pc = "thrown",
                        !.thrown = IF rt.outcomes = <<>> THEN UndefinedThrown
                                   ELSE rt.outcomes[Len(rt.outcomes)]]
    /\ UNCHANGED <<pipeline, cl, pr, tm, ag, dup, ss, db, tx, sd>>

RetryNext == RetryInvoke \/ RetryWait \/ RetryExhausted

RetrySpec == RetryInit /\ [][RetryNext]_vars

\* ------------------------- parseClassificationResponse (workflow-classifier.ts)
MaxTextLen == 4     \* tokens of a capability response

\* skill names; a and A differ in case only
Names == {"a", "A", "b"}

\* String.prototype.toLowerCase on the names
toLowerCase(name) ==
    CASE name = "A" -> "a"
      [] name = "a" -> "a"
      [] name = "b" -> "b"
      [] OTHER -> name

\* A response text is a sequence of tokens: "w" is prose without braces,
\* "{" and "}" are the brace characters, and a member token is the text
\* between the braces of one JSON object.
Members == {"T:a", "T:A", "T:b", "T:", "F"}
Tokens == {"w", "{", "}"} \cup Members

\* the object a member list denotes; a key that is absent is Undefined,
\* the JSON literals true and false are written "true" and "false"
ObjectOf(members) ==
    CASE members = "T:a" -> [match |-> "true", workflowName |-> "a", confidence |-> "high"]
      [] members = "T:A" -> [match |-> "true", workflowName |-> "A", confidence |-> "high"]
      [] members = "T:b" -> [match |-> "true", workflowName |-> "b", confidence |-> Undefined]
      [] members = "T:"  -> [match |-> "true", workflowName |-> Null, confidence |-> "low"]
      [] members = "F"   -> [match |-> "false", workflowName |-> Undefined, confidence |-> Undefined]
      [] OTHER -> [match |-> Undefined, workflowName |-> Undefined, confidence |-> Undefined]

\* JSON.parse of a span of tokens: an object is "{", at most one member
\* list, "}"; anything else is a SyntaxError
IsJSONObject(span) ==
    /\ Len(span) \in {2, 3}
    /\ span[1] = "{"
    /\ span[Len(span)] = "}"
    /\ Len(span) = 3 => span[2] \in Members

JSONParse(span) ==
    IF Len(span) = 3 THEN ObjectOf(span[2]) ELSE ObjectOf("")

\* the operator ??
Coalesce(value, default) ==
    IF value \in {Undefined, Null} THEN default ELSE value

\* workflow-classifier.ts 183-187 and 199-203
ParseFallback == [match |-> "false", workflowName |-> Null, confidence |-> "none"]

\* workflow-classifier.ts 192-197
FieldsOf(parsed) ==
    [match |-> Coalesce(parsed.match, "false"),
     workflowName |-> Coalesce(parsed.workflowName, Null),
     confidence |-> Coalesce(parsed.confidence, "none")]

Positions(text, token) == {i \in 1..Len(text) : text[i] = token}

Min(S) == CHOOSE x \in S : \A y \in S : x <= y
Max(S) == CHOOSE x \in S : \A y \in S : x >= y

\* text.match(/\{[\s\S]*\}/): from the first "{" to the LAST "}" after it;
\* the empty sequence stands for no match
RegexMatch(text) ==
    LET opens == Positions(text, "{") IN
    IF opens = {} THEN <<>>
    ELSE LET closes == {j \in Positions(text, "}") : j > Min(opens)} IN
         IF closes = {} THEN <<>>
         ELSE SubSeq(text, Min(opens), Max(closes))

\* workflow-classifier.ts 174-205
parseClassificationResponse(text) ==
    LET jsonMatch == RegexMatch(text) IN
    IF jsonMatch = <<>> THEN ParseFallback
    ELSE IF IsJSONObject(jsonMatch) THEN FieldsOf(JSONParse(jsonMatch))
    ELSE ParseFallback

RECURSIVE TextsOfLen(_)
TextsOfLen(n) ==
    IF n = 0 THEN {<<>>}
    ELSE {Append(t, tok) : t \in TextsOfLen(n - 1), tok \in Tokens}

Texts == UNION {TextsOfLen(n) : n \in 0..MaxTextLen}

ParseInit ==
    /\ PipelineInit
    /\ rt = Idle
    /\ cl = Idle
    /\ tm = Idle /\ ag = Idle /\ dup = Idle
    /\ ss = Idle /\ db = Idle /\ tx = Idle /\ sd = Idle
    /\ pr \in {[pc |-> "ready", text |-> t, result |-> ParseFallback] : t \in Texts}

\* one call parseClassificationResponse(content.text)
ParseCall ==
    /\ pr.pc = "ready"
    /\ pr' = [pr EXCEPT !.pc = "done",
                        !.result = parseClassificationResponse(pr.text)]
    /\ UNCHANGED <<pipeline, rt, cl, tm, ag, dup, ss, db, tx, sd>>

ParseNext == ParseCall

ParseSpec == ParseInit /\ [][ParseNext]_vars

\* ----------------------------------- classifyWorkflow (workflow-classifier.ts)
\* database.ts 164-176: the active skills, ordered by name; which of two
\* names that differ in case comes first is the collation's choice
NameOrder(name) == IF toLowerCase(name) = "a" THEN 1 ELSE 2

IsCatalog(c) ==
    /\ \A i, j \in DOMAIN c : i # j => c[i].id # c[j].id
    /\ \A i, j \in DOMAIN c :
           i < j => NameOrder(c[i].name) <= NameOrder(c[j].name)

Catalogs ==
    {c \in UNION {[1..n -> [id : Skills, name : Names]] : n \in 0..NumSkills} :
        IsCatalog(c)}

\* responses of the language capability: prose only, or braces around one token
ClassifierTexts ==
    {<<"w">>} \cup {<<"{", tok, "}">> : tok \in Tokens}

\* lines 46-50, 128-133, 143-147, 163-167
NoMatch(confidence) ==
    [workflowId |-> NoId, workflowData |-> Null, confidence |-> confidence]

\* JS truthiness of a field of the parsed response
Falsy(value) == value \in {"false", Undefined, Null, ""}

\* a name comparison that tells a from A
NameEquals_caseSensitive(a, b) == a = b

\* line 121
NameEquals(a, b) == toLowerCase(a) = toLowerCase(b)

\* lines 120-122: Array.prototype.find, 0 when nothing is found
Find(workflows, name) ==
    LET hits == {i \in DOMAIN workflows : NameEquals(workflows[i].name, name)}
    IN  IF hits = {} THEN 0 ELSE Min(hits)

\* the prompts classifyWorkflow is called with
Prompts == {"weekly digest", "something else"}

ClassifierStart(userPrompt, catalog) ==
    [pc |-> "fetch", userPrompt |-> userPrompt, catalog |-> catalog,
     workflows |-> <<>>, apiKeyLookups |-> 0, apiKey |-> Null, llmCalls |-> 0, parsed |-> ParseFallback,
     matchedWorkflow |-> NoId, fullFetches |-> <<>>, failures |-> {},
     result |-> NoMatch(Undefined)]

ClassifierInit ==
    /\ PipelineInit
    /\ rt = Idle
    /\ pr = Idle
    /\ tm = Idle /\ ag = Idle /\ dup = Idle
    /\ ss = Idle /\ db = Idle /\ tx = Idle /\ sd = Idle
    /\ cl \in {ClassifierStart(p, c) : p \in Prompts, c \in Catalogs}

\* a catch that lets the error out of classifyWorkflow
ClassifierCatch_rethrow(c, failure) ==
    [c EXCEPT !.pc = "thrown", !.failures = @ \cup {failure}]

\* lines 160-168
ClassifierCatch(c, failure) ==
    [c EXCEPT !.pc = "returned", !.result = NoMatch("none"),
              !.failures = @ \cup {failure}]

\* GetAllWorkflows without the test of line 44
GetAllWorkflows_noShortCircuit ==
    /\ cl.pc = "fetch"
    /\ \E ok \in BOOLEAN :
        cl' = [cl EXCEPT !.workflows = IF ok THEN cl.catalog ELSE <<>>,
                         !.failures = IF ok THEN @ ELSE @ \cup {"catalog"},
                         !.pc = "client"]
    /\ UNCHANGED <<pipeline, rt, pr, tm, ag, dup, ss, db, tx, sd>>

\* lines 42-51 and database.ts 158-189: a failed query yields the empty list
GetAllWorkflows ==
    /\ cl.pc = "fetch"
    /\ \E ok \in BOOLEAN :
        LET workflows == IF ok THEN cl.catalog ELSE <<>>
            fetched == [cl EXCEPT !.workflows = workflows,
                                  !.failures = IF ok THEN @ ELSE @ \cup {"catalog"}]
        IN  cl' = IF Len(workflows) = 0
                  THEN [fetched EXCEPT !.pc = "returned", !.result = NoMatch("none")]
                  ELSE [fetched EXCEPT !.pc = "client"]
    /\ UNCHANGED <<pipeline, rt, pr, tm, ag, dup, ss, db, tx, sd>>

\* lines 19-29 and 88: the stored key (null on any failure, part_003 176-192)
\* or the environment's
GetAnthropicClient ==
    /\ cl.pc = "client"
    /\ \E dbApiKey \in BOOLEAN, envApiKey \in BOOLEAN :
        LET looked == [cl EXCEPT !.apiKeyLookups = @ + 1] IN
        cl' = IF dbApiKey \/ envApiKey
              THEN [looked EXCEPT !.pc = "llm",
                                  !.apiKey = IF dbApiKey THEN "config" ELSE "env"]
              ELSE ClassifierCatch(looked, "apikey")
    /\ UNCHANGED <<pipeline, rt, pr, tm, ag, dup, ss, db, tx, sd>>

\* lines 109-134: what the parsed response leads to
Resolve(c, parsed) ==
    IF Falsy(parsed.match) \/ Falsy(parsed.workflowName)
    THEN [c EXCEPT !.pc = "returned",
                   !.result = NoMatch(IF Falsy(parsed.confidence) THEN "none"
                                      ELSE parsed.confidence)]
    ELSE LET i == Find(c.workflows, parsed.workflowName) IN
         IF i = 0
         THEN [c EXCEPT !.pc = "returned", !.result = NoMatch("none")]
         ELSE [c EXCEPT !.pc = "full", !.matchedWorkflow = c.workflows[i].id]

\* lines 89-134: the capability call, the text of its first block, the parse
CallCapability ==
    /\ cl.pc = "llm"
    /\ \E response \in {<<"reject">>, <<"tool_use">>} \cup ClassifierTexts :
        LET called == [cl EXCEPT !.llmCalls = @ + 1] IN
        cl' = IF response = <<"reject">> THEN ClassifierCatch(called, "capability")
              ELSE IF response = <<"tool_use">> THEN ClassifierCatch(called, "content")
              ELSE LET parsed == parseClassificationResponse(response)
                       noted == [called EXCEPT
                                   !.parsed = parsed,
                                   !.failures =
                                       IF IsJSONObject(RegexMatch(response))
                                       THEN @ ELSE @ \cup {"parse"}]
                   IN  Resolve(noted, parsed)
    /\ UNCHANGED <<pipeline, rt, pr, tm, ag, dup, ss, db, tx, sd>>

NameOf(catalog, id) ==
    LET i == CHOOSE i \in DOMAIN catalog : catalog[i].id = id IN catalog[i].name

\* lines 137-159 and database.ts 197-224: null when the skill is gone or the
\* query fails
GetWorkflowById ==
    /\ cl.pc = "full"
    /\ \E found \in BOOLEAN :
        LET id == cl.matchedWorkflow
            fetched == [cl EXCEPT !.fullFetches = Append(@, [id |-> id, found |-> found])]
        IN  cl' = IF ~found
                  THEN [fetched EXCEPT !.pc = "returned", !.result = NoMatch("none"),
                                       !.failures = @ \cup {"full"}]
                  ELSE [fetched EXCEPT
                          !.pc = "returned",
                          !.result = [workflowId |-> id,
                                      workflowData |-> NameOf(cl.catalog, id),
                                      confidence |-> IF Falsy(cl.parsed.confidence)
                                                     THEN "medium"
                                                     ELSE cl.parsed.confidence]]
    /\ UNCHANGED <<pipeline, rt, pr, tm, ag, dup, ss, db, tx, sd>>

ClassifierNext ==
    \/ GetAllWorkflows
    \/ GetAnthropicClient
    \/ CallCapability
    \/ GetWorkflowById

ClassifierSpec == ClassifierInit /\ [][ClassifierNext]_vars

\* ------------------------------------------------ withTimeout (db/client.ts)
MaxOpSteps == 2     \* side effects the guarded operation still has to make

\* client.ts 21-25
DATABASE_CONFIG == [QUERY_TIMEOUT |-> 15000]

\* the timeoutMs argument: absent, or a number of milliseconds
TimeoutArgs == {<<>>, <<50>>}

\* client.ts 126: the default of the parameter
TimeoutMsOf(arg) == IF arg = <<>> THEN DATABASE_CONFIG.QUERY_TIMEOUT ELSE arg[1]

\* client.ts 129: new Error(`Query timeout after ${timeoutMs}ms`)
TimeoutRejection(timeoutMs) ==
    [code |-> Undefined, message |-> "Query timeout after", ms |-> timeoutMs]

NotSettled == [code |-> Null, message |-> "pending", ms |-> 0]

\* what the operation settled with, as the race sees it
Settlement(outcome) == [code |-> outcome.code, message |-> outcome.message, ms |-> 0]

\* client.ts 127-133: queryFn() is started and the timer is armed
TimeoutStart(arg, planned) ==
    [pc |-> "racing", timeoutMs |-> TimeoutMsOf(arg), planned |-> planned,
     effects |-> 0, op |-> "running", opOutcome |-> NotSettled,
     timer |-> "armed", first |-> "none", settled |-> NotSettled]

TimeoutInit ==
    /\ PipelineInit
    /\ rt = Idle /\ cl = Idle /\ pr = Idle /\ ag = Idle /\ dup = Idle
    /\ ss = Idle /\ db = Idle /\ tx = Idle /\ sd = Idle
    /\ tm \in {TimeoutStart(arg, n) : arg \in TimeoutArgs, n \in 0..MaxOpSteps}

\* the operation goes on: one more of its side effects
OpStep ==
    /\ tm.pc = "racing"
    /\ tm.op = "running"
    /\ tm.effects < tm.planned
    /\ tm' = [tm EXCEPT !.effects = @ + 1]
    /\ UNCHANGED <<pipeline, rt, cl, pr, ag, dup, ss, db, tx, sd>>

\* the promise of queryFn() settles; Promise.race takes it if it is the first
OpSettle ==
    /\ tm.pc = "racing"
    /\ tm.op = "running"
    /\ tm.effects = tm.planned
    /\ \E outcome \in {OkValue} \cup OpErrors :
        tm' = [tm EXCEPT
                 !.op = IF outcome = OkValue THEN "fulfilled" ELSE "rejected",
                 !.opOutcome = Settlement(outcome),
                 !.first = IF @ = "none" THEN "op" ELSE @,
                 !.settled = IF tm.first = "none" THEN Settlement(outcome) ELSE @]
    /\ UNCHANGED <<pipeline, rt, cl, pr, ag, dup, ss, db, tx, sd>>

\* a timer whose expiry stops the operation
TimerFire_cancels ==
    /\ tm.pc = "racing"
    /\ tm.timer = "armed"
    /\ tm' = [tm EXCEPT
                !.timer = "fired",
                !.op = IF @ = "running" THEN "cancelled" ELSE @,
                !.first = IF @ = "none" THEN "timer" ELSE @,
                !.settled = IF tm.first = "none"
                            THEN TimeoutRejection(tm.timeoutMs) ELSE @]
    /\ UNCHANGED <<pipeline, rt, cl, pr, ag, dup, ss, db, tx, sd>>

\* client.ts 129-131: the timer is never cleared; its reject is taken by the
\* race only if nothing settled before
TimerFire ==
    /\ tm.pc = "racing"
    /\ tm.timer = "armed"
    /\ tm' = [tm EXCEPT
                !.timer = "fired",
                !.first = IF @ = "none" THEN "timer" ELSE @,
                !.settled = IF tm.first = "none"
                            THEN TimeoutRejection(tm.timeoutMs) ELSE @]
    /\ UNCHANGED <<pipeline, rt, cl, pr, ag, dup, ss, db, tx, sd>>

TimeoutNext == OpStep \/ OpSettle \/ TimerFire

TimeoutSpec == TimeoutInit /\ [][TimeoutNext]_vars

\* the event loop runs every continuation and every timer that is due
FairTimeoutSpec ==
    TimeoutSpec /\ WF_vars(OpStep) /\ WF_vars(OpSettle) /\ WF_vars(TimerFire)

\* ------------------------------------------------- executeAgent (agent.ts)
MaxMsgs == 2        \* messages the agent capability emits in one run

\* message.type of a message of the run
MessageTypes == {"assistant", "result"}

\* agent.ts 48-49 and 103-105: the call has read the clock and named its
\* directory; nothing is collected yet (finalResult 0 = null)
AgentStart(requestId, timestamp) ==
    [pc |-> "key", requestId |-> requestId,
     workingDirectory |-> <<requestId, timestamp>>,
     conversationTrace |-> <<>>, finalResult |-> 0, expired |-> FALSE,
     atExpiry |-> <<>>,
     returned |-> [text |-> 0, workingDirectory |-> <<>>, trace |-> <<>>],
     thrown |-> [message |-> Null],
     update |-> [status |-> "running", output |-> 0, trace |-> <<>>,
                 error |-> Null]]

AgentInit ==
    /\ PipelineInit
    /\ rt = Idle /\ cl = Idle /\ pr = Idle /\ tm = Idle /\ dup = Idle
    /\ ss = Idle /\ db = Idle /\ tx = Idle /\ sd = Idle
    /\ ag \in {AgentStart(id, ts) : id \in {"req-a", "req-b"}, ts \in {0, 1}}

\* agent.ts 145-153: the catch rethrows a new Error that has the message only
AgentCatch(a, message) ==
    [a EXCEPT !.pc = "thrown",
              !.thrown = [message |-> <<"Agent execution failed", message>>]]

\* agent.ts 53-59
AgentGetApiKey ==
    /\ ag.pc = "key"
    /\ \E apiKey \in BOOLEAN :
        ag' = IF apiKey THEN [ag EXCEPT !.pc = "mkdir"]
              ELSE AgentCatch(ag, "Anthropic API key not configured")
    /\ UNCHANGED <<pipeline, rt, cl, pr, tm, dup, ss, db, tx, sd>>

\* agent.ts 62-100: the directory, then query(...) is started
AgentMkdir ==
    /\ ag.pc = "mkdir"
    /\ \E ok \in BOOLEAN :
        ag' = IF ok THEN [ag EXCEPT !.pc = "iterate"]
              ELSE AgentCatch(ag, "mkdir failed")
    /\ UNCHANGED <<pipeline, rt, cl, pr, tm, dup, ss, db, tx, sd>>

\* agent.ts 108-118: one message of the run; the loop goes on after the
\* deadline too, the race has only stopped waiting for it
AgentMessage ==
    /\ ag.pc \in {"iterate", "thrown", "failed"}
    /\ ag.pc # "iterate" => ag.expired
    /\ Len(ag.conversationTrace) < MaxMsgs
    /\ \E type \in MessageTypes :
        ag' = [ag EXCEPT !.conversationTrace = Append(@, type),
                         !.finalResult = IF type = "result"
                                         THEN Len(ag.conversationTrace) + 1 ELSE @]
    /\ UNCHANGED <<pipeline, rt, cl, pr, tm, dup, ss, db, tx, sd>>

\* agent.ts 119-144: the iterator ends and the race yields finalResult, or
\* the iterator throws
AgentReturn ==
    /\ ag.pc = "iterate"
    /\ \E ok \in BOOLEAN :
        ag' = IF ok
              THEN [ag EXCEPT !.pc = "returned",
                              !.returned = [text |-> ag.finalResult,
                                            workingDirectory |-> ag.workingDirectory,
                                            trace |-> ag.conversationTrace]]
              ELSE AgentCatch(ag, "query failed")
    /\ UNCHANGED <<pipeline, rt, cl, pr, tm, dup, ss, db, tx, sd>>

\* agent.ts 124-129: the timer of the race fires first
AgentDeadline ==
    /\ ag.pc = "iterate"
    /\ ag' = [AgentCatch(ag, "Agent execution timeout") EXCEPT
                !.expired = TRUE, !.atExpiry = ag.conversationTrace]
    /\ UNCHANGED <<pipeline, rt, cl, pr, tm, dup, ss, db, tx, sd>>

\* webhook.ts 265-270 and 384-403: what the pipeline does with the Error
AgentFailurePath ==
    /\ ag.pc = "thrown"
    /\ ag' = [ag EXCEPT !.pc = "failed",
                        !.update = [status |-> "failed", output |-> 0,
                                    trace |-> <<>>,
                                    error |-> ag.thrown.message[2]]]
    /\ UNCHANGED <<pipeline, rt, cl, pr, tm, dup, ss, db, tx, sd>>

\* webhook.ts 241-243 and 333-340: what the pipeline does with the result
AgentSuccessPath ==
    /\ ag.pc = "returned"
    /\ ag' = [ag EXCEPT !.pc = "completed",
                        !.update = [status |-> "completed",
                                    output |-> ag.returned.text,
                                    trace |-> ag.returned.trace,
                                    error |-> Null]]
    /\ UNCHANGED <<pipeline, rt, cl, pr, tm, dup, ss, db, tx, sd>>

AgentNext ==
    \/ AgentGetApiKey
    \/ AgentMkdir
    \/ AgentMessage
    \/ AgentReturn
    \/ AgentDeadline
    \/ AgentFailurePath
    \/ AgentSuccessPath

AgentSpec == AgentInit /\ [][AgentNext]_vars

\* --------------------------------- concurrent requests (webhook.ts, agent.ts)
NumConc == 2        \* skill-matched requests in flight at the same time

Conc == 1..NumConc

\* requestId of the payload: the client may send the same id twice
RequestIds == {"req-a", "req-b"}

\* the ids of the requests in flight; the requests are interchangeable, so the
\* first k carry one id and the others the other one
ConcIds ==
    {[d \in Conc |-> IF d <= k THEN "req-a" ELSE "req-b"] : k \in 1..NumConc}

\* webhook.ts 143-144 and 207-221: a request about to create its row
ConcStart(ids) ==
    [req |-> [d \in Conc |->
                [pc |-> "create", requestId |-> ids[d], executionId |-> NoId,
                 workingDirectory |-> <<>>, timestamp |-> 0, envReadFrom |-> 0]],
     rows |-> <<>>,       \* table Execution: owner, status, who updated the row
     clock |-> 0,         \* Date.now()
     env |-> 0,           \* who wrote process.env.ANTHROPIC_API_KEY (0 = startup)
     dirs |-> {}]         \* directories that exist under /tmp

ConcInit ==
    /\ PipelineInit
    /\ rt = Idle /\ cl = Idle /\ pr = Idle /\ tm = Idle /\ ag = Idle
    /\ ss = Idle /\ db = Idle /\ tx = Idle /\ sd = Idle
    /\ dup \in {ConcStart(ids) : ids \in ConcIds}

\* webhook.ts 223-257 and agent.ts 48-49: the continuation of the create goes
\* on, without an await, to the agent call, which reads the clock and names
\* its directory `/tmp/${requestId}-${timestamp}`
ConcAgentCall(c, d) ==
    [c EXCEPT !.req[d].timestamp = c.clock,
              !.req[d].workingDirectory = <<c.req[d].requestId, c.clock>>,
              !.req[d].pc = "key"]

ConcRow(d) ==
    [owner |-> d, requestId |-> dup.req[d].requestId, status |-> "running",
     updatedBy |-> {}]

\* a create that returns the row of a request with the same id, if there is one
ConcCreate_singleFlight(d) ==
    /\ dup.req[d].pc = "create"
    /\ LET same == {i \in DOMAIN dup.rows :
                       dup.rows[i].requestId = dup.req[d].requestId}
           created == IF same = {}
                      THEN [dup EXCEPT !.rows = Append(@, ConcRow(d)),
                                       !.req[d].executionId = Len(dup.rows) + 1]
                      ELSE [dup EXCEPT !.req[d].executionId = Min(same)]
       IN  dup' = ConcAgentCall(created, d)
    /\ UNCHANGED <<pipeline, rt, cl, pr, tm, ag, ss, db, tx, sd>>

\* webhook.ts 207-221 and database.ts 43-54: prisma.execution.create inserts a
\* new row whatever rows exist; a rejected create leaves executionId null
ConcCreate(d) ==
    /\ dup.req[d].pc = "create"
    /\ \E ok \in BOOLEAN :
        LET created == IF ok
                       THEN [dup EXCEPT !.rows = Append(@, ConcRow(d)),
                                        !.req[d].executionId = Len(dup.rows) + 1]
                       ELSE dup
        IN  dup' = ConcAgentCall(created, d)
    /\ UNCHANGED <<pipeline, rt, cl, pr, tm, ag, ss, db, tx, sd>>

\* a millisecond passes; only readings that some call has taken are told apart
ConcTick ==
    /\ \E d \in Conc : dup.req[d].pc # "create" /\ dup.req[d].timestamp = dup.clock
    /\ \E d \in Conc : dup.req[d].pc = "create"
    /\ dup' = [dup EXCEPT !.clock = @ + 1]
    /\ UNCHANGED <<pipeline, rt, cl, pr, tm, ag, ss, db, tx, sd>>

\* database.ts 81-92 as called from webhook.ts 335 and 396: the row with the
\* caller's own executionId
ConcUpdate(c, d, status) ==
    IF c.req[d].executionId = NoId THEN c
    ELSE [c EXCEPT !.rows[c.req[d].executionId].status = status,
                   !.rows[c.req[d].executionId].updatedBy = @ \cup {d}]

\* agent.ts 53-58: the key is fetched and written to the process environment;
\* without a key the run throws and webhook.ts 393-403 marks the row failed
ConcSetApiKey(d) ==
    /\ dup.req[d].pc = "key"
    /\ \E apiKey \in BOOLEAN :
        dup' = IF apiKey
               THEN [dup EXCEPT !.env = d, !.req[d].pc = "mkdir"]
               ELSE [ConcUpdate(dup, d, "failed") EXCEPT !.req[d].pc = "failed"]
    /\ UNCHANGED <<pipeline, rt, cl, pr, tm, ag, ss, db, tx, sd>>

\* agent.ts 62-100: mkdir -p, then the SDK is started and takes the key from
\* the process environment
ConcStartQuery(d) ==
    /\ dup.req[d].pc = "mkdir"
    /\ dup' = [dup EXCEPT !.dirs = @ \cup {dup.req[d].workingDirectory},
                          !.req[d].envReadFrom = dup.env,
                          !.req[d].pc = "run"]
    /\ UNCHANGED <<pipeline, rt, cl, pr, tm, ag, ss, db, tx, sd>>

\* agent.ts 122-153 and webhook.ts 333-340, 393-403: the run ends and the row
\* is updated
ConcSettle(d) ==
    /\ dup.req[d].pc = "run"
    /\ \E ok \in BOOLEAN :
        dup' = IF ok
               THEN [ConcUpdate(dup, d, "completed") EXCEPT !.req[d].pc = "cleanup"]
               ELSE [ConcUpdate(dup, d, "failed") EXCEPT !.req[d].pc = "failed"]
    /\ UNCHANGED <<pipeline, rt, cl, pr, tm, ag, ss, db, tx, sd>>

\* webhook.ts 351-358: the directory the run returned is removed
ConcCleanup(d) ==
    /\ dup.req[d].pc = "cleanup"
    /\ dup' = [dup EXCEPT !.dirs = @ \ {dup.req[d].workingDirectory},
                          !.req[d].pc = "done"]
    /\ UNCHANGED <<pipeline, rt, cl, pr, tm, ag, ss, db, tx, sd>>

ConcNext ==
    \/ ConcTick
    \/ \E d \in Conc :
        \/ ConcCreate(d)
        \/ ConcSetApiKey(d)
        \/ ConcStartQuery(d)
        \/ ConcSettle(d)
        \/ ConcCleanup(d)

ConcSpec == ConcInit /\ [][ConcNext]_vars

\* --------------------------------------------------- secret store (config.ts)
MaxKeyTokens == 3   \* pieces a secret value or a stored text is made of

\* text is a sequence of pieces: whole substrings the code looks for, runs of
\* ordinary characters, a lone surrogate (a JS string may hold one; JSON.parse
\* yields it from "\ud800") and U+FFFD
KeyPieces == {"sk-ant-", "x12", "k", ":", "uD800"}
Width == [p \in KeyPieces \cup {"encrypted:", "uFFFD", "b64"} |->
            CASE p = "sk-ant-" -> 7
              [] p = "x12" -> 12
              [] p = "encrypted:" -> 10
              [] OTHER -> 1]

RECURSIVE Length(_)
Length(text) == IF text = <<>> THEN 0 ELSE Width[Head(text)] + Length(Tail(text))

StartsWith(text, piece) == Len(text) > 0 /\ text[1] = piece

\* String.prototype.split(':').length
SplitLength(text) ==
    1 + Cardinality({i \in DOMAIN text : text[i] \in {":", "encrypted:"}})

\* 'utf8' encoding of a JS string: an unpaired surrogate is written as U+FFFD
Utf8Encode(text) ==
    [i \in DOMAIN text |-> IF text[i] = "uD800" THEN "uFFFD" ELSE text[i]]

\* 'utf8' decoding of well-formed bytes gives the characters back
Utf8Decode(bytes) == bytes

\* the GCM tag authenticates the data under the key and the nonce
AuthTag(key, iv, data) == [key |-> key, iv |-> iv, data |-> data]
NoTag == AuthTag("", 0, <<>>)

\* config.ts 20-27: the key is derived from VM_ENCRYPTION_SECRET only
getEncryptionKey(secret) == secret

\* a Config value: its text, and what the base64 parts of the text encode
Plain(text) == [text |-> text, iv |-> 0, authTag |-> NoTag, data |-> <<>>]

\* config.ts 32-44: `encrypted:${iv}:${authTag}:${encrypted}`
encrypt(plaintext, secret, iv) ==
    LET data == Utf8Encode(plaintext)
    IN  [text |-> <<"encrypted:", "b64", ":", "b64", ":", "b64">>,
         iv |-> iv,
         authTag |-> AuthTag(getEncryptionKey(secret), iv, data),
         data |-> data]

Decrypted(text) == [thrown |-> FALSE, value |-> text]
DecryptThrows == [thrown |-> TRUE, value |-> <<>>]

\* config.ts 49-72
decrypt(encryptedValue, secret) ==
    IF ~StartsWith(encryptedValue.text, "encrypted:")
    THEN Decrypted(encryptedValue.text)
    ELSE IF SplitLength(encryptedValue.text) # 4 THEN DecryptThrows
    ELSE IF secret = "" THEN DecryptThrows
    ELSE IF encryptedValue.authTag #
              AuthTag(getEncryptionKey(secret), encryptedValue.iv, encryptedValue.data)
    THEN DecryptThrows
    ELSE Decrypted(Utf8Decode(encryptedValue.data))

RECURSIVE KeysOfLen(_)
KeysOfLen(n) ==
    IF n = 0 THEN {<<>>}
    ELSE {<<p>> \o t : p \in KeyPieces, t \in KeysOfLen(n - 1)}

\* req.body.anthropic_api_key
Keys == UNION {KeysOfLen(n) : n \in 0..MaxKeyTokens}

\* config.ts 133-147
Accepted(key) ==
    /\ key # <<>>
    /\ StartsWith(key, "sk-ant-")
    /\ Length(key) >= 20

\* the Config row 'anthropic_api_key' as it may be found: none, written before
\* values were encrypted, encrypted under this or an earlier secret, damaged
NoRow == Plain(<<"no row">>)
NoKey == <<"no key">>
FoundRows ==
    {NoRow, Plain(<<>>), Plain(<<"sk-ant-", "x12", "k">>), Plain(<<"k", ":", "k">>),
     Plain(<<"encrypted:", "k">>),
     encrypt(<<"sk-ant-", "x12", "k">>, "s0", 1),
     [encrypt(<<"sk-ant-", "x12", "k">>, "s1", 1) EXCEPT !.data = <<"k">>]}

Secrets == {"", "s1"}     \* process.env.VM_ENCRYPTION_SECRET
IVs == {1, 2}             \* crypto.randomBytes(IV_LENGTH)

SecretStart(row, secret) ==
    [row |-> row,             \* Config row 'anthropic_api_key'
     secret |-> secret,
     saved |-> NoKey,         \* the key the row was saved from, if it was
     op |-> "none",           \* the last call
     lookupFailed |-> FALSE,  \* its storage call was rejected
     status |-> 0,            \* saveConfig: the HTTP status sent
     thrown |-> FALSE,        \* getAnthropicApiKey: it threw
     apiKey |-> NoKey,        \* getAnthropicApiKey: what it returned
     caller |-> "none",
     envKey |-> FALSE,        \* process.env.ANTHROPIC_API_KEY is set
     callerThrows |-> FALSE]

SecretInit ==
    /\ PipelineInit
    /\ rt = Idle /\ cl = Idle /\ pr = Idle /\ tm = Idle /\ ag = Idle /\ dup = Idle
    /\ db = Idle /\ tx = Idle /\ sd = Idle
    /\ ss \in {SecretStart(row, secret) : row \in FoundRows, secret \in Secrets}

\* saveConfig has returned: what it leaves of the last call
Saved(status) ==
    [ss EXCEPT !.op = "save", !.status = status, !.lookupFailed = FALSE,
               !.thrown = FALSE, !.apiKey = NoKey,
               !.caller = "none", !.envKey = FALSE, !.callerThrows = FALSE]

\* config.ts 129-171
SaveConfig ==
    /\ ss # Idle
    /\ \E key \in Keys :
        \/ /\ ~Accepted(key)
           /\ ss' = Saved(400)
        \/ /\ Accepted(key) /\ ss.secret = ""
           /\ ss' = Saved(500)
        \/ /\ Accepted(key) /\ ss.secret # ""
           /\ \E iv \in IVs, upsertOk \in BOOLEAN :
                ss' = IF ~upsertOk
                      THEN [Saved(500) EXCEPT !.lookupFailed = TRUE]
                      ELSE [Saved(200) EXCEPT !.row = encrypt(key, ss.secret, iv),
                                              !.saved = key]
    /\ UNCHANGED <<pipeline, rt, cl, pr, tm, ag, dup, db, tx, sd>>

\* what getAnthropicApiKey gives for a row that was found
ReadRow(row, secret) ==
    IF row = NoRow \/ row.text = <<>> THEN [thrown |-> FALSE, value |-> NoKey]
    ELSE decrypt(row, secret)

\* workflow-classifier.ts 19-29 and agent.ts 52-56: what the caller does
\* with the key: the classifier falls back on the environment, the agent
\* throws without a key
CallerThrows(caller, apiKey, envKey) ==
    IF caller = "agent" THEN apiKey \in {NoKey, <<>>}
    ELSE apiKey \in {NoKey, <<>>} /\ ~envKey

\* a read that lets the error of the lookup or of decrypt through
GetAnthropicApiKey_noCatch ==
    /\ ss # Idle
    /\ \E findOk \in BOOLEAN, caller \in {"classifier", "agent"}, envKey \in BOOLEAN :
        LET r == ReadRow(ss.row, ss.secret)
            failed == ~findOk \/ r.thrown
        IN  ss' = [ss EXCEPT !.op = "read", !.status = 0,
                             !.lookupFailed = ~findOk,
                             !.thrown = failed,
                             !.apiKey = IF failed THEN NoKey ELSE r.value,
                             !.caller = caller, !.envKey = envKey,
                             !.callerThrows = failed \/ CallerThrows(caller, r.value, envKey)]
    /\ UNCHANGED <<pipeline, rt, cl, pr, tm, ag, dup, db, tx, sd>>

\* config.ts 176-192, and the caller's use of the result
GetAnthropicApiKey ==
    /\ ss # Idle
    /\ \E findOk \in BOOLEAN, caller \in {"classifier", "agent"}, envKey \in BOOLEAN :
        LET r == ReadRow(ss.row, ss.secret)
            apiKey == IF ~findOk \/ r.thrown THEN NoKey ELSE r.value
        IN  ss' = [ss EXCEPT !.op = "read", !.status = 0,
                             !.lookupFailed = ~findOk,
                             !.thrown = FALSE,
                             !.apiKey = apiKey,
                             !.caller = caller, !.envKey = envKey,
                             !.callerThrows = CallerThrows(caller, apiKey, envKey)]
    /\ UNCHANGED <<pipeline, rt, cl, pr, tm, ag, dup, db, tx, sd>>

SecretNext == SaveConfig \/ GetAnthropicApiKey

SecretSpec == SecretInit /\ [][SecretNext]_vars

\* ------------------------------------- storage client handle (db/client.ts)
MaxClients == 3     \* PrismaClient instances constructed in one process
MaxTeardowns == 2   \* disconnect() calls awaiting at one time, and made on one instance

Clients == 1..MaxClients
NoClient == 0       \* prismaInstance = null

\* the sequence s without its i-th element
Remove(s, i) == [j \in 1..(Len(s) - 1) |-> IF j < i THEN s[j] ELSE s[j + 1]]

\* client.ts 30: the module after import, before the first call
HandleStart(databaseUrl) ==
    [prismaInstance |-> NoClient,
     databaseUrl |-> databaseUrl,           \* process.env.DATABASE_URL is set
     constructed |-> 0,                     \* instances made by new PrismaClient
     disconnects |-> [c \in Clients |-> 0], \* $disconnect invocations of each
     disconnected |-> {},                   \* instances whose $disconnect resolved
     pending |-> <<>>,                      \* teardowns awaiting $disconnect
     handlers |-> 0,                        \* shutdownHandlers on SIGTERM/SIGINT
     op |-> "none",                         \* the last call
     returned |-> NoClient,                 \* what getPrismaClient returned
     before |-> NoClient,                   \* prismaInstance when it was called
     thrown |-> FALSE,                      \* the last call threw
     exited |-> FALSE]                      \* process.exit was called

HandleInit ==
    /\ PipelineInit
    /\ rt = Idle /\ cl = Idle /\ pr = Idle /\ tm = Idle /\ ag = Idle /\ dup = Idle
    /\ ss = Idle /\ tx = Idle /\ sd = Idle
    /\ db \in {HandleStart(databaseUrl) : databaseUrl \in BOOLEAN}

HandleRunning == db # Idle /\ ~db.exited

\* client.ts 36-98
GetPrismaClient ==
    /\ HandleRunning
    /\ db.prismaInstance = NoClient => (~db.databaseUrl \/ db.constructed < MaxClients)
    /\ db' = IF db.prismaInstance # NoClient
             THEN [db EXCEPT !.op = "get", !.thrown = FALSE,
                             !.before = db.prismaInstance,
                             !.returned = db.prismaInstance]
             ELSE IF ~db.databaseUrl
             THEN [db EXCEPT !.op = "get", !.thrown = TRUE,
                             !.before = NoClient, !.returned = NoClient]
             ELSE [db EXCEPT !.prismaInstance = db.constructed + 1,
                             !.constructed = @ + 1,
                             !.handlers = @ + 1,
                             !.op = "get", !.thrown = FALSE,
                             !.before = NoClient,
                             !.returned = db.constructed + 1]
    /\ UNCHANGED <<pipeline, rt, cl, pr, tm, ag, dup, ss, tx, sd>>

\* $disconnect is invoked on the instance and the caller awaits it
InvokeDisconnect(h, kind) ==
    [h EXCEPT !.disconnects[h.prismaInstance] = @ + 1,
              !.pending = Append(@, [kind |-> kind, client |-> h.prismaInstance])]

\* client.ts 155-157: disconnect() up to its await
Disconnect ==
    /\ HandleRunning
    /\ Len(db.pending) < MaxTeardowns
    /\ db.prismaInstance # NoClient => db.disconnects[db.prismaInstance] < MaxTeardowns
    /\ db' = IF db.prismaInstance # NoClient
             THEN [InvokeDisconnect(db, "disconnect") EXCEPT !.op = "disconnect",
                                                            !.thrown = FALSE]
             ELSE [db EXCEPT !.op = "noop", !.thrown = FALSE]
    /\ UNCHANGED <<pipeline, rt, cl, pr, tm, ag, dup, ss, tx, sd>>

\* client.ts 157-158: $disconnect settles; a rejection leaves prismaInstance
DisconnectSettle ==
    /\ HandleRunning
    /\ \E i \in DOMAIN db.pending, ok \in BOOLEAN :
        /\ db.pending[i].kind = "disconnect"
        /\ db' = IF ok
                 THEN [db EXCEPT !.pending = Remove(@, i),
                                 !.prismaInstance = NoClient,
                                 !.disconnected = @ \cup {db.pending[i].client},
                                 !.op = "settled", !.thrown = FALSE]
                 ELSE [db EXCEPT !.pending = Remove(@, i),
                                 !.op = "settled", !.thrown = TRUE]
    /\ UNCHANGED <<pipeline, rt, cl, pr, tm, ag, dup, ss, tx, sd>>

RECURSIVE RunHandlers(_, _)
\* client.ts 83-91, 93-94: every registered shutdownHandler runs up to its
\* await, or to process.exit(0) when there is no client
RunHandlers(h, n) ==
    IF n = 0 \/ h.exited THEN h
    ELSE IF h.prismaInstance # NoClient
         THEN RunHandlers(InvokeDisconnect(h, "handler"), n - 1)
         ELSE [h EXCEPT !.exited = TRUE]

\* SIGTERM or SIGINT arrives
Signal ==
    /\ HandleRunning
    /\ db.handlers > 0
    /\ \A i \in DOMAIN db.pending : db.pending[i].kind # "handler"
    /\ db' = [RunHandlers(db, db.handlers) EXCEPT !.op = "signal", !.thrown = FALSE]
    /\ UNCHANGED <<pipeline, rt, cl, pr, tm, ag, dup, ss, tx, sd>>

\* client.ts 86-90: the handler's $disconnect settles; the process exits,
\* with 0 by the handler or by the unhandled rejection
HandlerSettle ==
    /\ HandleRunning
    /\ \E i \in DOMAIN db.pending, ok \in BOOLEAN :
        /\ db.pending[i].kind = "handler"
        /\ db' = IF ok
                 THEN [db EXCEPT !.pending = Remove(@, i),
                                 !.prismaInstance = NoClient,
                                 !.disconnected = @ \cup {db.pending[i].client},
                                 !.op = "settled", !.thrown = FALSE,
                                 !.exited = TRUE]
                 ELSE [db EXCEPT !.pending = Remove(@, i),
                                 !.op = "settled", !.thrown = TRUE,
                                 !.exited = TRUE]
    /\ UNCHANGED <<pipeline, rt, cl, pr, tm, ag, dup, ss, tx, sd>>

HandleNext ==
    \/ GetPrismaClient
    \/ Disconnect
    \/ DisconnectSettle
    \/ Signal
    \/ HandlerSettle

HandleSpec == HandleInit /\ [][HandleNext]_vars

\* --------------------------------- createSkillExecution, transaction (db/client.ts)
MaxRunCount == 2    \* runCount of the skill before the call

\* the tables as committed: Execution rows and the Skill row (absent = no row)
StoreOf(rows, skillExists, runCount) ==
    [executions |-> rows,
     skill |-> IF skillExists
               THEN [exists |-> TRUE, runCount |-> runCount, lastRunAt |-> Null]
               ELSE [exists |-> FALSE, runCount |-> 0, lastRunAt |-> Null]]

OldRow == [skillId |-> "skill-0", status |-> "completed"]

NoTxError == [message |-> "none"]
TxError(message) == [message |-> message]

\* client.ts 142-149 and 339-348: the call, before $transaction has begun
TxStart(via, tables) ==
    [pc |-> "begin",
     via |-> via,             \* createSkillExecution, or transaction(operations)
     committed |-> tables,     \* what every other connection sees
     before |-> tables,        \* the tables when the call was made
     work |-> tables,          \* what the statements of the transaction see
     created |-> 0,           \* index of the row tx.execution.create made
     returned |-> 0,          \* the execution the call resolved with
     thrown |-> NoTxError]      \* the error the call rejected with

TxInit ==
    /\ PipelineInit
    /\ rt = Idle /\ cl = Idle /\ pr = Idle /\ tm = Idle /\ ag = Idle /\ dup = Idle
    /\ ss = Idle /\ db = Idle /\ sd = Idle
    /\ tx \in {TxStart(via, StoreOf(rows, skillExists, runCount)) :
                 via \in {"createSkillExecution", "transaction"},
                 rows \in {<<>>, <<OldRow>>},
                 skillExists \in BOOLEAN,
                 runCount \in 0..MaxRunCount}

\* a failed statement that leaves what was written before it in the tables
Rollback_keepsWrites(t, message) ==
    [t EXCEPT !.pc = "done", !.committed = t.work, !.thrown = TxError(message)]

\* $transaction rolls back: nothing of `work` is committed, the call rejects
Rollback(t, message) ==
    [t EXCEPT !.pc = "done", !.work = t.committed, !.thrown = TxError(message)]

\* client.ts 145-146, 346-348: getPrismaClient, then BEGIN
TxBegin ==
    /\ tx # Idle /\ tx.pc = "begin"
    /\ \E ok \in BOOLEAN :
        tx' = IF ok THEN [tx EXCEPT !.pc = "create"]
              ELSE [tx EXCEPT !.pc = "done", !.thrown = TxError("begin failed")]
    /\ UNCHANGED <<pipeline, rt, cl, pr, tm, ag, dup, ss, db, sd>>

\* client.ts 350-357: tx.execution.create; the foreign key needs the skill
TxCreate ==
    /\ tx # Idle /\ tx.pc = "create"
    /\ \E ok \in BOOLEAN :
        tx' = IF ok /\ tx.work.skill.exists
              THEN [tx EXCEPT !.pc = "update",
                              !.work.executions =
                                  Append(@, [skillId |-> "skill-1", status |-> "running"]),
                              !.created = Len(tx.work.executions) + 1]
              ELSE Rollback(tx, "create failed")
    /\ UNCHANGED <<pipeline, rt, cl, pr, tm, ag, dup, ss, db, sd>>

\* client.ts 360-366: tx.skill.update
TxSkillUpdate ==
    /\ tx # Idle /\ tx.pc = "update"
    /\ \E ok \in BOOLEAN :
        tx' = IF ok
              THEN [tx EXCEPT !.pc = "commit",
                              !.work.skill.runCount = @ + 1,
                              !.work.skill.lastRunAt = "now"]
              ELSE Rollback(tx, "update failed")
    /\ UNCHANGED <<pipeline, rt, cl, pr, tm, ag, dup, ss, db, sd>>

\* client.ts 368-369: the callback returns and $transaction commits
TxCommit ==
    /\ tx # Idle /\ tx.pc = "commit"
    /\ \E ok \in BOOLEAN :
        tx' = IF ok
              THEN [tx EXCEPT !.pc = "done", !.committed = tx.work,
                              !.returned = tx.created]
              ELSE Rollback(tx, "commit failed")
    /\ UNCHANGED <<pipeline, rt, cl, pr, tm, ag, dup, ss, db, sd>>

TxNext == TxBegin \/ TxCreate \/ TxSkillUpdate \/ TxCommit

TxSpec == TxInit /\ [][TxNext]_vars

\* ------------------------------- termination signals (index.ts, db/client.ts)
MaxInflight == 2    \* requests being served when the signal arrives
MaxSignals == 2     \* SIGTERM / SIGINT deliveries

NotExited == [code |-> -1, by |-> "none"]
Exit(code, by) == [code |-> code, by |-> by]

\* index.ts 113-141 and client.ts 93-94: the serving process; the storage
\* client registers its handler when it is constructed, and disconnect()
\* leaves the handler registered
ShutdownStart(inflight, dbHandler, client) ==
    [inflight |-> inflight,       \* open requests of the HTTP server
     prismaInstance |-> client,   \* prismaInstance is set
     dbHandler |-> dbHandler,     \* shutdownHandler is registered
     signals |-> 0,
     closing |-> FALSE,           \* server.close() was called
     closed |-> FALSE,            \* the 'close' callback has run
     exitTimers |-> 0,            \* 5 s timers armed by the close callback
     forceTimers |-> 0,           \* 10 s timers armed by gracefulShutdown
     disconnecting |-> 0,         \* shutdownHandlers awaiting $disconnect
     closeCallbacks |-> 0,        \* callbacks waiting for the 'close' event
     served |-> 0,                \* requests answered since the start
     exit |-> NotExited,
     closedAtExit |-> FALSE]      \* the server had closed when the process exited

ShutdownInit ==
    /\ PipelineInit
    /\ rt = Idle /\ cl = Idle /\ pr = Idle /\ tm = Idle /\ ag = Idle /\ dup = Idle
    /\ ss = Idle /\ db = Idle /\ tx = Idle
    /\ sd \in {ShutdownStart(inflight, c[1], c[2]) :
                 inflight \in 0..MaxInflight,
                 c \in {<<FALSE, FALSE>>, <<TRUE, FALSE>>, <<TRUE, TRUE>>}}

ShutdownRunning == sd # Idle /\ sd.exit = NotExited

\* process.exit(code)
ProcessExit(s, code, by) ==
    [s EXCEPT !.exit = Exit(code, by), !.closedAtExit = s.closed]

\* client.ts 83-91: shutdownHandler up to its await, or to process.exit(0)
ShutdownHandler(s) ==
    IF ~s.dbHandler THEN s
    ELSE IF s.prismaInstance THEN [s EXCEPT !.disconnecting = @ + 1]
    ELSE ProcessExit(s, 0, "shutdownHandler")

\* index.ts 122-138: server.close(callback) and the 10 s timer
gracefulShutdown(s) ==
    [s EXCEPT !.closing = TRUE,
              !.closeCallbacks = @ + 1,
              !.forceTimers = @ + 1]

\* SIGTERM or SIGINT: both listeners run, gracefulShutdown and shutdownHandler
ShutdownSignal ==
    /\ ShutdownRunning
    /\ sd.signals < MaxSignals
    /\ sd' = ShutdownHandler(gracefulShutdown([sd EXCEPT !.signals = @ + 1]))
    /\ UNCHANGED <<pipeline, rt, cl, pr, tm, ag, dup, ss, db, tx>>

\* a request in flight is answered and its connection ends
RequestEnds ==
    /\ ShutdownRunning
    /\ sd.inflight > 0
    /\ sd' = [sd EXCEPT !.inflight = @ - 1, !.served = @ + 1]
    /\ UNCHANGED <<pipeline, rt, cl, pr, tm, ag, dup, ss, db, tx>>

\* index.ts 125-132: no connection is left, the server emits 'close' and
\* every callback arms its 5 s timer
ServerClosed ==
    /\ ShutdownRunning
    /\ sd.closing /\ sd.inflight = 0 /\ sd.closeCallbacks > 0
    /\ sd' = [sd EXCEPT !.closed = TRUE,
                        !.exitTimers = @ + sd.closeCallbacks,
                        !.closeCallbacks = 0]
    /\ UNCHANGED <<pipeline, rt, cl, pr, tm, ag, dup, ss, db, tx>>

\* index.ts 128-131
ExitTimer ==
    /\ ShutdownRunning
    /\ sd.exitTimers > 0
    /\ sd' = ProcessExit(sd, 0, "gracefulShutdown")
    /\ UNCHANGED <<pipeline, rt, cl, pr, tm, ag, dup, ss, db, tx>>

\* index.ts 134-137
ForceTimer ==
    /\ ShutdownRunning
    /\ sd.forceTimers > 0
    /\ sd' = ProcessExit(sd, 1, "forced")
    /\ UNCHANGED <<pipeline, rt, cl, pr, tm, ag, dup, ss, db, tx>>

\* client.ts 86-90: $disconnect resolves and the handler exits with 0, or it
\* rejects: the handler's rejection is unhandled and index.ts 152-155 logs it
DisconnectSettled ==
    /\ ShutdownRunning
    /\ sd.disconnecting > 0
    /\ \E ok \in BOOLEAN :
        sd' = IF ok
              THEN ProcessExit([sd EXCEPT !.prismaInstance = FALSE,
                                          !.disconnecting = @ - 1],
                               0, "shutdownHandler")
              ELSE [sd EXCEPT !.disconnecting = @ - 1]
    /\ UNCHANGED <<pipeline, rt, cl, pr, tm, ag, dup, ss, db, tx>>

ShutdownNext ==
    \/ ShutdownSignal
    \/ RequestEnds
    \/ ServerClosed
    \/ ExitTimer
    \/ ForceTimer
    \/ DisconnectSettled

ShutdownSpec == ShutdownInit /\ [][ShutdownNext]_vars

\* ------------------------------------------------------------------ claims

Terminal == {"completed", "failed"}
ExecIds == 1..Len(executions)
Propagating == {"handler_catch", "async_catch", "done"}
OrchFailed(r) == hist[r].orchOutcome \in FailCauses
Row(r) == executions[executionId[r]]

\* C1: the status of an Execution row only ever goes running -> completed or
\* running -> failed; no status write is applied to a row that is terminal.
C1_StatusWrittenOnce ==
    \A id \in ExecIds :
        statusLog[id] \in {<<"running">>, <<"running", "completed">>,
                           <<"running", "failed">>}

\* C2: completed-at is set iff the status is completed or failed, and it is
\* written exactly once over the row's lifetime.
C2_CompletedAtWrittenOnce ==
    \A id \in ExecIds :
        /\ (executions[id].completedAt # 0) <=> (executions[id].status \in Terminal)
        /\ executions[id].completedAt <= 1

\* C3: a skill-matched run whose Execution is terminal has updated its
\* Skill's run counter and last-run timestamp exactly once; with no other run
\* touching the Skill the run count is the count before plus one.  Stated
\* for the runs none of whose storage calls was rejected.
C3_SkillUpdatedOncePerRun ==
    \A r \in Reqs :
        (pc[r] = "done" /\ executionId[r] # NoId /\ Row(r).status \in Terminal
            /\ hist[r].writeFailed = {} /\ hist[r].skillRejected = {})
        => /\ hist[r].skillBumps = 1
           /\ (\A q \in Reqs \ {r} : hist[q].skillBumps = 0)
                => skills[Row(r).skillId].runCount = 1

\* C4: an Execution row is visible iff its Skill's run-count update is
\* visible: in every state each Skill's run count equals the number of its
\* Execution rows.
C4_ExecutionAndCountTogether ==
    \A s \in Skills :
        skills[s].runCount =
            Cardinality({id \in ExecIds : executions[id].skillId = s})

\* C5: when the orchestration call starts, no createExecution is pending,
\* and a matched request whose creation succeeded has its row, with status
\* running.
C5_RowRunningBeforeOrchestration ==
    [][\A r \in Reqs :
         hist'[r].orchCalls > hist[r].orchCalls
         => /\ ~hist[r].createPending
            /\ (classification[r] # NoId /\ ~hist[r].createFailed)
                 => /\ executionId[r] \in ExecIds
                    /\ Row(r).status = "running"
                    /\ Row(r).skillId = classification[r]]_vars

C5_Witness ==
    \E r \in Reqs :
        hist[r].orchCalls = 1 /\ executionId[r] # NoId /\ pc[r] = "agent"

C7_CompletedUpdateAttempted ==
    \A r \in Reqs :
        (pc[r] \in {"cleanup", "respond", "done"} /\ hist[r].orchOutcome = "ok"
            /\ executionId[r] # NoId)
        => Cardinality({i \in 1..Len(hist[r].updCalls) :
               hist[r].updCalls[i] =
                   [caller |-> "success",
                    args |-> [status |-> "completed", output |-> agentResponse[r],
                              trace |-> "trace", error |-> Undefined,
                              durationMs |-> "ms"]]}) = 1

C7_Witness ==
    \E r \in Reqs :
        /\ pc[r] = "done" /\ hist[r].orchOutcome = "ok" /\ executionId[r] # NoId
        /\ "upsertResult" \in hist[r].writeFailed
        /\ \E i \in 1..Len(hist[r].updCalls) : hist[r].updCalls[i].caller = "success"

\* C8: once a failed orchestration is being propagated, cleanup has been
\* started for the working directory allocated for the request.
C8_CleanupOnFailure ==
    \A r \in Reqs :
        (pc[r] \in Propagating /\ OrchFailed(r) /\ r \in allocated)
        => hist[r].cleanupCalls >= 1

\* C9: a failed Execution creation is not fatal: the orchestration of the
\* matched skill still runs, no Execution update is ever attempted, and a
\* successful orchestration still gives the synchronous caller a success.
C9_UntrackedRunOnCreateFailure ==
    \A r \in Reqs :
        hist[r].createFailed
        => /\ executionId[r] = NoId
           /\ hist[r].updCalls = <<>>
           /\ classification[r] # NoId
           /\ pc[r] # "orchestrate" => hist[r].orchCalls = 1
           /\ (pc[r] = "done" /\ hist[r].orchOutcome = "ok" /\ ~isAsync[r])
                => resp[r] = <<[kind |-> "ok", name |-> Null,
                                workflowId |-> classification[r],
                                text |-> agentResponse[r]]>>

C9_Witness ==
    \E r \in Reqs :
        /\ hist[r].createFailed /\ pc[r] = "done" /\ hist[r].orchOutcome = "ok"
        /\ ~isAsync[r] /\ Len(resp[r]) = 1

\* C10: a payload that fails validation ends in a validation error; no
\* classifier call, no agent call, no Execution creation and no 202
\* acknowledgement happen for it.
C10_InvalidPayloadStopsEarly ==
    \A r \in Reqs :
        hist[r].valid = "no"
        => /\ hist[r].classifierCalls = 0
           /\ hist[r].orchCalls = 0
           /\ hist[r].createCalls = 0
           /\ pc[r] \in {"handler_catch", "done"}
           /\ resp[r] = IF pc[r] = "done"
                        THEN <<[kind |-> "error", name |-> "ValidationError",
                                workflowId |-> NoId,
                                text |-> "Invalid request body"]>>
                        ELSE <<>>

C10_Witness ==
    \E r \in Reqs : hist[r].valid = "no" /\ pc[r] = "done"

\* C11: in asynchronous mode the acknowledgement is sent before any
\* classification, Execution creation or orchestration, and it is the only
\* thing the HTTP caller is ever sent: a failure of the detached run never
\* reaches the caller or webhookHandler's catch.
C11_AckIsTheOnlySignal ==
    \A r \in Reqs :
        /\ isAsync[r] => (resp[r] = <<Ack>> /\ pc[r] # "handler_catch")
        /\ (hist[r].valid = "yes" /\ pc[r] = "load" /\ Len(resp[r]) = 1)
             => /\ resp[r] = <<Ack>>
                /\ hist[r].classifierCalls = 0
                /\ hist[r].createCalls = 0
                /\ hist[r].orchCalls = 0

C11_Witness ==
    \E r \in Reqs :
        /\ isAsync[r] /\ pc[r] = "done" /\ hist[r].orchCalls = 1 /\ OrchFailed(r)
        /\ hist[r].recordRequest = <<FALSE, FALSE>>

LastResp(r) == resp[r][Len(resp[r])]

C13_AgentCalledAtMostOnce ==
    \A r \in Reqs :
        /\ hist[r].orchCalls <= 1
        /\ hist[r].orchOutcome # "none" => hist[r].orchCalls = 1

C13_Witness ==
    \E r \in Reqs :
        pc[r] = "done" /\ hist[r].orchOutcome = "deadline" /\ hist[r].orchCalls = 1

\* the invocations the pipeline made of one storage step
CallsOf(r, step) ==
    SelectSeq(hist[r].storageCalls, LAMBDA c : c.step = step)

\* C14: a transient storage error of an Execution create or update issued by
\* the pipeline is retried per the Retry Policy: a step whose invocation was
\* rejected with a connection error is invoked again until it succeeds or the
\* default number of attempts is used up.
C14_TransientStorageErrorRetried ==
    \A r \in Reqs : \A step \in {"create"} \cup Callers :
        LET calls == CallsOf(r, step) IN
        (pc[r] = "done" /\ calls # <<>>
           /\ calls[1].outcome = PrismaErrorCodes.CONNECTION_ERROR)
        => \/ Len(calls) = DEFAULT_RETRY_CONFIG.maxAttempts
           \/ calls[Len(calls)].outcome = "ok"

ThrownEarly(error) ==
    /\ rt.pc = "thrown"
    /\ rt.thrown = error
    /\ rt.attempt < rt.maxAttempts

\* C15: a storage timeout is transient for the Retry Policy: when the
\* operation given to withRetry is () => withTimeout(op, t) and an invocation
\* fails with the timeout error while attempts remain, withRetry does not
\* throw it but invokes the operation again.
C15_TimeoutIsRetried ==
    rt.pc # "idle" => ~ThrownEarly(QueryTimeoutError)

\* the transient class of the Retry Policy: P1001 and P1008
TransientErrors == {PrismaError("P1001"), PrismaError("P1008")}

\* the outcomes are k transient failures followed by one success
FailsThenSucceeds(k) ==
    /\ Len(rt.outcomes) = k + 1
    /\ \A i \in 1..k : rt.outcomes[i] \in TransientErrors
    /\ rt.outcomes[k + 1] = OkValue

\* C20: withRetry with maxAttempts m >= 1 over an operation that fails with
\* a transient connection error k < m times and then succeeds returns the
\* success value after exactly k + 1 invocations; while the failures are
\* transient and attempts remain nothing is thrown.
C20_RetryUntilSuccess ==
    (rt.pc # "idle" /\ rt.maxAttempts >= 1)
    => /\ \A k \in 0..(rt.maxAttempts - 1) :
            FailsThenSucceeds(k)
            => rt.pc = "returned" /\ rt.result = OkValue /\ rt.calls = k + 1
       /\ (rt.pc = "thrown" /\ rt.attempt < rt.maxAttempts)
            => rt.thrown \notin TransientErrors
       /\ rt.calls = Len(rt.outcomes)
       /\ rt.calls <= rt.maxAttempts

C20_Witness ==
    /\ rt.pc = "returned"
    /\ rt.maxAttempts = 3
    /\ rt.delayMs = 100 /\ rt.backoffMultiplier = 2
    /\ FailsThenSucceeds(2)
    /\ rt.calls = 3
    /\ rt.waits = <<100, 200>>
    /\ rt.outcomes[1] # rt.outcomes[2]

\* the end of the balanced object that opens at position i (0 = unbalanced)
RECURSIVE BalancedEnd(_, _, _)
BalancedEnd(text, j, depth) ==
    IF j > Len(text) THEN 0
    ELSE IF text[j] = "{" THEN BalancedEnd(text, j + 1, depth + 1)
    ELSE IF text[j] = "}"
         THEN IF depth = 1 THEN j ELSE BalancedEnd(text, j + 1, depth - 1)
    ELSE BalancedEnd(text, j + 1, depth)

\* the first balanced object of a text, <<>> if there is none
FirstBalancedObject(text) ==
    LET opens == Positions(text, "{") IN
    IF opens = {} THEN <<>>
    ELSE LET end == BalancedEnd(text, Min(opens), 0) IN
         IF end = 0 THEN <<>> ELSE SubSeq(text, Min(opens), end)

\* prose, one valid JSON object, further text
ProseObjectText(text) ==
    /\ FirstBalancedObject(text) # <<>>
    /\ IsJSONObject(FirstBalancedObject(text))

\* C19: parseClassificationResponse extracts the first balanced JSON object
\* of the response whatever surrounds it: for a text made of prose, one valid
\* JSON object and further text (which may hold braces or a second object)
\* the result is the match / workflowName / confidence of that first object.
C19_FirstBalancedObjectExtracted ==
    (pr.pc = "done" /\ ProseObjectText(pr.text))
    => pr.result = FieldsOf(JSONParse(FirstBalancedObject(pr.text)))

\* C16: classifyWorkflow never lets a failure out: after a failure of the
\* catalog fetch, the API-key lookup, the capability call, the parsing of the
\* response or the full-skill fetch it returns a result without a skill.
C16_ClassifierNeverThrows ==
    /\ cl.pc # "thrown"
    /\ (cl.pc = "returned" /\ cl.failures # {})
         => cl.result.workflowId = NoId /\ cl.result.workflowData = Null

C16_Witness ==
    /\ cl.pc = "returned"
    /\ cl.failures = {"capability"}
    /\ cl.llmCalls = 1
    /\ cl.result = NoMatch("none")

\* C17: with an empty list of active skills (an empty catalog or a failed
\* catalog fetch) classifyWorkflow returns no match with confidence none
\* and has neither looked up the API key nor called the capability.
C17_EmptyCatalogShortCircuits ==
    (cl.pc \notin {"idle", "fetch"} /\ cl.workflows = <<>>)
    => /\ cl.pc = "returned"
       /\ cl.result = NoMatch("none")
       /\ cl.apiKeyLookups = 0
       /\ cl.llmCalls = 0

C17_Witness ==
    /\ cl.pc = "returned"
    /\ cl.catalog = <<>>
    /\ cl.failures = {}
    /\ cl.result = NoMatch("none")

\* equality of two names up to case
SameNameIgnoringCase(a, b) == a = b \/ {a, b} = {"a", "A"}

\* the response claimed a match with a workflow name
ClaimsMatch ==
    /\ cl.pc = "returned"
    /\ cl.llmCalls = 1
    /\ cl.parsed.match = "true"
    /\ cl.parsed.workflowName \in Names

NonTransientAt ==
    {i \in 1..Len(rt.outcomes) :
        rt.outcomes[i] # OkValue /\ rt.outcomes[i] \notin TransientErrors}

\* C21: an error of the operation that is not transient (no code, or a code
\* other than P1001 / P1008) is thrown by withRetry at once: it is the error
\* of the last invocation made, no wait follows it and no invocation follows
\* it, whatever attempts remain.
C21_NonTransientPropagatesAtOnce ==
    \A i \in NonTransientAt :
        /\ i = Len(rt.outcomes)
        /\ rt.pc = "thrown"
        /\ rt.thrown = rt.outcomes[i]
        /\ rt.calls = i
        /\ Len(rt.waits) = i - 1

C21_Witness ==
    /\ rt.pc = "thrown"
    /\ rt.maxAttempts = 3
    /\ rt.outcomes = <<PrismaError("P2025")>>
    /\ rt.thrown = PrismaError("P2025")
    /\ rt.waits = <<>>

Settled == rt.pc \in {"returned", "thrown"}

\* every invocation made failed with a transient error
AllTransient == \A i \in 1..Len(rt.outcomes) : rt.outcomes[i] \in TransientErrors

\* C22: when every invocation fails with a transient error the operation is
\* invoked exactly maxAttempts times and the last error is thrown unchanged;
\* for every configuration a call of withRetry that has settled invoked the
\* operation at least once and at most maxAttempts times.
C22_InvokedUpToMaxAttempts ==
    /\ rt.pc # "idle" => rt.calls <= rt.maxAttempts
    /\ Settled => rt.calls >= 1
    /\ (rt.pc = "thrown" /\ AllTransient)
         => /\ rt.calls = rt.maxAttempts
            /\ rt.thrown = rt.outcomes[Len(rt.outcomes)]

RECURSIVE Pow(_, _)
Pow(base, n) == IF n = 0 THEN 1 ELSE base * Pow(base, n - 1)

\* C23: the wait before the j-th retry is delayMs * backoffMultiplier^(j-1),
\* one wait lies between two consecutive invocations and none follows the
\* last one; with the defaults the waits are 100 ms and then 200 ms.
C23_ExponentialBackoff ==
    rt.pc # "idle" =>
        /\ \A j \in 1..Len(rt.waits) :
               rt.waits[j] = rt.delayMs * Pow(rt.backoffMultiplier, j - 1)
        /\ Len(rt.waits) = IF rt.pc = "loop" THEN rt.calls
                           ELSE IF rt.calls = 0 THEN 0 ELSE rt.calls - 1
        /\ (Settled /\ rt.maxAttempts >= 1) => Len(rt.waits) <= rt.maxAttempts - 1

C23_Witness ==
    /\ rt.pc = "thrown"
    /\ rt.maxAttempts = 3 /\ rt.delayMs = 100 /\ rt.backoffMultiplier = 2
    /\ rt.calls = 3
    /\ rt.thrown \in TransientErrors
    /\ rt.waits = <<100, 200>>

\* the timer fired while the operation had not settled
TimedOut == tm.pc = "racing" /\ tm.first = "timer"

\* the operation ran to its end: all its side effects made, its promise settled
OpRanToEnd ==
    /\ tm.effects = tm.planned
    /\ tm.op \in {"fulfilled", "rejected"}

\* C24: withTimeout(op, t) settles with what comes first.  If the timer fires
\* while op is pending the call rejects with 'Query timeout after t ms'; op is
\* not cancelled, it makes all its side effects and settles later, and its
\* outcome does not replace the rejection.  If op settles first the call has
\* op's value or op's rejection, also after the timer has fired.
C24_TimeoutRaceKeepsOpRunning ==
    /\ [](tm.pc = "racing" =>
            /\ tm.first = "timer" => tm.settled = TimeoutRejection(tm.timeoutMs)
            /\ tm.first = "op" => (tm.settled = tm.opOutcome /\ tm.opOutcome # NotSettled)
            /\ tm.first = "none" => (tm.settled = NotSettled /\ tm.op = "running")
            /\ tm.op # "cancelled")
    /\ (TimedOut ~> (TimedOut /\ OpRanToEnd))

C24_Witness ==
    /\ TimedOut
    /\ OpRanToEnd
    /\ tm.planned = 2
    /\ tm.timeoutMs = 50
    /\ tm.opOutcome = Settlement(OkValue)
    /\ tm.settled = TimeoutRejection(50)

\* C25: the failure surfaced is 'Agent execution timeout' iff the agent's
\* own deadline expired; an orchestration failure of any other cause, a
\* storage 'Query timeout' included, is surfaced as 'Agent execution failed'.
C25_TimeoutMeansDeadline ==
    \A r \in Reqs :
        (caught[r].message = "Agent execution timeout")
            <=> (hist[r].orchOutcome = "deadline")

\* the successful response of a synchronous request
Succeeded(r) ==
    /\ pc[r] = "done"
    /\ ~isAsync[r]
    /\ Len(resp[r]) = 1
    /\ resp[r][1].kind = "ok"

\* C30: a successful response carries workflowId iff the classifier matched
\* a skill for the request, and it is that skill's id; when the classifier
\* was not called or matched nothing the response has no workflowId and the
\* one-off agent was the branch executed.
C30_WorkflowIdIffMatched ==
    \A r \in Reqs :
        Succeeded(r) =>
            /\ resp[r][1].workflowId = classification[r]
            /\ hist[r].classifierCalls = 0 => resp[r][1].workflowId = NoId
            /\ resp[r][1].workflowId # NoId
                 => /\ resp[r][1].workflowId \in Skills
                    /\ hist[r].classifierCalls = 1
                    /\ hist[r].path = "orchestrator"
            /\ resp[r][1].workflowId = NoId => hist[r].path = "agent"

C30_Witness ==
    \E r \in Reqs :
        /\ Succeeded(r)
        /\ resp[r][1].workflowId \in Skills
        /\ hist[r].path = "orchestrator"
        /\ hist[r].createFailed

\* C26: when the agent deadline expires the request fails, and what the run
\* had collected until then is kept: the failure path has the partial trace
\* (and the response extracted from it) for the diagnostics it records.
C26_PartialTraceKept ==
    (ag.pc = "failed" /\ ag.expired)
    => /\ ag.update.status = "failed"
       /\ ag.update.error = "Agent execution timeout"
       /\ ag.update.trace = ag.atExpiry

\* C27: requests are not deduplicated by request id: two requests in flight
\* with the same client-supplied id that both created a row have two rows
\* with distinct ids, and a row is only ever updated by the request that
\* created it.
C27_NoSingleFlight ==
    dup # Idle =>
        /\ \A d, e \in Conc :
              (d # e /\ dup.req[d].executionId # NoId /\ dup.req[e].executionId # NoId)
              => dup.req[d].executionId # dup.req[e].executionId
        /\ \A d \in Conc :
              dup.req[d].executionId # NoId
              => dup.rows[dup.req[d].executionId].owner = d
        /\ \A i \in DOMAIN dup.rows : dup.rows[i].updatedBy \subseteq {dup.rows[i].owner}

C27_Witness ==
    /\ dup # Idle
    /\ dup.req[1].requestId = dup.req[2].requestId
    /\ dup.req[1].pc = "done" /\ dup.req[2].pc = "failed"
    /\ dup.req[1].executionId = 2 /\ dup.req[2].executionId = 1
    /\ dup.rows[1].status = "failed" /\ dup.rows[2].status = "completed"
    /\ dup.rows[1].updatedBy = {2} /\ dup.rows[2].updatedBy = {1}

\* the run of d has named its directory
Called(d) == dup.req[d].pc # "create"

\* C28: every agent run has a working directory of its own: the directories
\* of two runs differ, also for the same request id at the same clock
\* reading, and the directory of a run in progress is not removed by the
\* cleanup of another run.
C28_DedicatedWorkingDirectory ==
    dup # Idle =>
        /\ \A d, e \in Conc :
              (d # e /\ Called(d) /\ Called(e))
              => dup.req[d].workingDirectory # dup.req[e].workingDirectory
        /\ \A d \in Conc :
              dup.req[d].pc = "run" => dup.req[d].workingDirectory \in dup.dirs

\* C29: requests in flight share no mutable state but the storage: the API
\* key the SDK of a run takes from the process environment was written there
\* by that run, not by another request.
C29_NoSharedProcessState ==
    dup # Idle =>
        \A d \in Conc :
            dup.req[d].pc \in {"run", "cleanup", "done"}
            => dup.req[d].envReadFrom = d

\* C31: a secret that saveConfig accepted and stored is read back unchanged,
\* and a stored value without the 'encrypted:' marker is read as it is
\* (whenever the lookup of the read itself went through).
C31_SecretRoundTrip ==
    (ss # Idle /\ ss.op = "read" /\ ~ss.lookupFailed) =>
        /\ ss.saved # NoKey => ss.apiKey = ss.saved
        /\ (ss.row # NoRow /\ ~StartsWith(ss.row.text, "encrypted:"))
           => ss.apiKey = ss.row.text

\* the row carries the marker and is malformed, or its tag does not verify
Undecryptable(row, secret) ==
    /\ row # NoRow
    /\ StartsWith(row.text, "encrypted:")
    /\ \/ SplitLength(row.text) # 4
       \/ secret = ""
       \/ row.authTag # AuthTag(secret, row.iv, row.data)

\* C32: reading the secret never throws; with the record missing, malformed,
\* failing its integrity check, or the lookup rejected, the read returns
\* null, and the caller does what it does without a secret: the agent run
\* throws, the classifier falls back on the environment's key.
C32_SecretReadNeverFatal ==
    (ss # Idle /\ ss.op = "read") =>
        /\ ~ss.thrown
        /\ (ss.lookupFailed \/ ss.row = NoRow \/ Undecryptable(ss.row, ss.secret))
           => /\ ss.apiKey = NoKey
              /\ ss.callerThrows = CallerThrows(ss.caller, NoKey, ss.envKey)

C32_Witness ==
    /\ ss # Idle /\ ss.op = "read" /\ ~ss.lookupFailed
    /\ ss.secret = "s1"
    /\ SplitLength(ss.row.text) = 4
    /\ Undecryptable(ss.row, ss.secret)
    /\ ss.apiKey = NoKey
    /\ ss.caller = "agent" /\ ss.callerThrows

\* C33: teardown of the storage handle is idempotent: however disconnect()
\* calls and signal handlers follow or overlap each other, $disconnect is
\* invoked at most once on each client instance, and a teardown without a
\* client does nothing and does not throw.
C33_TeardownIdempotent ==
    db # Idle =>
        /\ \A c \in Clients : db.disconnects[c] <= 1
        /\ db.op = "noop" => ~db.thrown

\* instances constructed and not yet disconnected
Live == {c \in Clients : c <= db.constructed /\ c \notin db.disconnected}

\* C34: the storage client is a singleton: a getPrismaClient() call made while
\* a client exists returns that instance, at most one instance is live at any
\* time, and without DATABASE_URL the call throws and constructs nothing.
C34_Singleton ==
    db # Idle =>
        /\ (db.op = "get" /\ db.before # NoClient) => db.returned = db.before
        /\ Cardinality(Live) <= 1
        /\ ~db.databaseUrl => (db.constructed = 0 /\ (db.op = "get" => db.thrown))

\* C35: createSkillExecution and transaction are all-or-nothing: until the
\* commit the tables are as they were; a call that rejects leaves them so and
\* rejects with the error of the failed statement; a call that resolves has
\* added the running Execution and counted the run of the skill, both at once.
C35_AllOrNothing ==
    tx # Idle =>
        /\ (tx.pc # "done" \/ tx.thrown # NoTxError) => tx.committed = tx.before
        /\ (tx.pc = "done" /\ tx.thrown # NoTxError) => tx.returned = 0
        /\ (tx.pc = "done" /\ tx.thrown = NoTxError) =>
              /\ tx.returned = Len(tx.before.executions) + 1
              /\ tx.committed.executions =
                    Append(tx.before.executions,
                           [skillId |-> "skill-1", status |-> "running"])
              /\ tx.committed.skill.runCount = tx.before.skill.runCount + 1
              /\ tx.committed.skill.lastRunAt = "now"

C35_Witness ==
    /\ tx # Idle /\ tx.pc = "done"
    /\ tx.thrown = TxError("update failed")
    /\ tx.created # 0
    /\ tx.committed = tx.before
    /\ tx.before.skill.runCount = 1

C37_RowLeavesRunning ==
    \A r \in Reqs :
        (pc[r] = "done" /\ executionId[r] # NoId)
        => Row(r).status \in {"completed", "failed"}

\* C38: after a successful skill-matched run whose update to completed was
\* written, the output on the Execution row is the response text the caller
\* got, and the text carries the files listing iff a file was uploaded (none
\* is after a failed detection or upload).
C38_OutputIsResponseText ==
    \A r \in Reqs :
        (pc[r] = "done" /\ hist[r].recordRequest = <<TRUE>> /\ executionId[r] # NoId
            /\ "success" \notin hist[r].writeFailed)
        => /\ Row(r).output = agentResponse[r]
           /\ ~isAsync[r] => LastResp(r).text = Row(r).output
           /\ uploadedFiles[r] > 0 <=> Row(r).output = "text+files"
           /\ uploadedFiles[r] = 0 <=> Row(r).output = "text"

C38_Witness ==
    \E r \in Reqs :
        /\ pc[r] = "done" /\ ~isAsync[r] /\ executionId[r] # NoId
        /\ "success" \notin hist[r].writeFailed
        /\ "upsertResult" \in hist[r].writeFailed
        /\ uploadedFiles[r] > 0
        /\ LastResp(r).text = "text+files"
        /\ Row(r).output = "text+files"

\* C39: every webhook request is counted once in the request metrics:
\* metrics.recordRequest has been called one time when the request is over,
\* with success = true iff the pipeline completed.
C39_RecordedOnce ==
    \A r \in Reqs :
        pc[r] = "done" =>
            /\ Len(hist[r].recordRequest) = 1
            /\ hist[r].recordRequest[1] = (hist[r].orchOutcome = "ok")

\* C40: after a termination signal the process does not exit with code 0
\* before the HTTP server has closed; the only exit that may come before the
\* close is the forced exit with code 1 of the 10 s timer.
C40_NoExitBeforeServerClosed ==
    (sd # Idle /\ sd.exit # NotExited /\ ~sd.closedAtExit)
    => sd.exit = Exit(1, "forced")

====
